---- MODULE Spec2Model ----
(***************************************************************************)
(* AtomicSynchronizer (AtomicSynchronizer.h): one writer and one reader    *)
(* exchange the indices 0, 1, 2 of three data instances through three      *)
(* atomic slots.  Every atomic operation of the source (exchange,          *)
(* compare_exchange_strong, load, store), together with the assignment of  *)
(* its result, is one step; the steps of the threads interleave in program *)
(* order (the memory_order_relaxed arguments are not modelled).            *)
(***************************************************************************)
EXTENDS Integers, FiniteSets, Sequences, TLC

\* ---------------------------------------------------------------- bounds
NumWriteHandles == 2      \* ScopedWriteIndex objects that may exist at once
NumReadHandles == 2       \* ScopedReadIndex objects that may exist at once
MaxPushes == 3            \* pushes between two resets
MaxSize == 1              \* sizes 0..MaxSize that map() may give an instance
AlphaDen == 4             \* alpha is one of 0/AlphaDen .. AlphaDen/AlphaDen
MaxValue == 1             \* addValue is given values in -1..MaxValue
MaxAdds == 3              \* calls of addValue
segLen == 3               \* CoherenceNode::segLen, seconds in a segment
Fs == 2                   \* CoherenceNode::Fs, samples in a second
MaxSamples == 2           \* samples of a channel in one call of process
NumChans == 2             \* active channels that are in a group
MaxArtifacts == 2         \* numArtifacts up to which an artifact may still come
nFreqs == 1               \* CumulativeTFR::nFreqs, frequencies of interest
nTimes == 2               \* CumulativeTFR::nTimes, time bins of a segment
MaxTrials == 2            \* calls of addTrial for one channel of one engine
MaxStepDen == 6           \* stepLen is one of 1/1 .. 1/MaxStepDen seconds
MaxEngines == 2           \* CumulativeTFR objects constructed

Empty == 0 - 1            \* the value -1 of an index variable that holds no slot
Slots == {0, 1, 2}
WriteHandles == 1..NumWriteHandles
ReadHandles == 1..NumReadHandles

VARIABLES
    readyToReadIndex,     \* std::atomic<int>: assigned by the writer, taken by the reader
    readyToWriteIndex,    \* std::atomic<int>: assigned by the reader, taken by the writer
    readyToWriteIndex2,   \* std::atomic<int>: second landing slot
    writerIndex,          \* int: index the writer may be writing to
    readerIndex,          \* int: index the reader may be reading from
    nWriters,             \* std::atomic<int>
    nReaders,             \* std::atomic<int>
    wh,                   \* wh[h]: position of ScopedWriteIndex h
    rh,                   \* rh[h]: position of ScopedReadIndex h
    lk,                   \* position of the thread running reset()
    hasReadLock,          \* ScopedLockout::hasReadLock of reset()'s lockout
    hasWriteLock,         \* ScopedLockout::hasWriteLock of reset()'s lockout
    valid,                \* ScopedLockout::valid of reset()'s lockout
    resetResult,          \* value returned by the last completed reset()
    assertFailed,         \* an assert of pushWrite found writerIndex == -1
    pushCount,            \* number of pushes begun since the last reset
    slotPush,             \* slotPush[i]: number of the push that committed slot i
    lkSawReader,          \* a read handle existed when reset() tried the reader
    lkSawWriter,          \* a write handle existed when reset() tried the writer
    observe,              \* the history recorded: "none", "order", "ops", "fresh",
                          \* "release", "rounds", "heap", "wait"
    pullFloor,            \* pushes completed when the last updateReaderIndex began
    wOps,                 \* atomic operations of the current or last pushWrite
    rOps,                 \* atomic operations of the current or last updateReaderIndex
    recent,               \* the last operations, for push-then-pull sequences
    pushedSlot,           \* the slot committed by the push that `recent` follows
    handlePushes,         \* handlePushes[h]: pushUpdate calls of the live write handle h
    data,                 \* AtomicallyShared::data: the three instances of T
    readPtrValid,         \* readPtrValid[h]: ScopedReadPtr::valid of read handle h
    sawUpdate,            \* pushes begun when hasUpdate() returned true; 0 once a pull ended
    wasInvalid,           \* read handles whose constructor ended registered, with no data
    releasedSlot,         \* writerIndex when a write handle was released, no push since
    aborted,              \* std::abort() was called by an operator*
    outOfRange,           \* an operator* evaluated data[-1]
    mp,                   \* position of the thread running map()
    mapHasReadLock,       \* ScopedLockout::hasReadLock of map()'s lockout
    mapHasWriteLock,      \* ScopedLockout::hasWriteLock of map()'s lockout
    mapValid,             \* ScopedLockout::valid of map()'s lockout
    mapResult,            \* value returned by the last completed map()
    mapSawReader,         \* a reader was registered when map() tried the reader
    mapSawWriter,         \* a writer was registered when map() tried the writer
    alpha,                \* WeightedAccum::alpha, in units of 1/AlphaDen
    rSum,                 \* RealWeightedAccum::sum
    rCount,               \* RealWeightedAccum::count
    cSum,                 \* ComplexWeightedAccum::sum
    cCount,               \* ComplexWeightedAccum::count
    xs,                   \* the values passed to RealWeightedAccum::addValue
    zs,                   \* the values passed to ComplexWeightedAccum::addValue
    nSamplesAdded,        \* CoherenceNode::nSamplesAdded
    nSamplesWait,         \* CoherenceNode::nSamplesWait
    nSamplesWaited,       \* CoherenceNode::nSamplesWaited
    numTrials,            \* CoherenceNode::numTrials
    numArtifacts,         \* CoherenceNode::numArtifacts, in units of 1/(segLen*Fs)
    callback,             \* position of CoherenceNode::process
    written,              \* samples of the segment set in the writer's instance
    pushedWritten,        \* `written` of the segment last pushed by process
    sinceDiscard,         \* samples of the callbacks since discardCurBuffer, up to Fs
    lastSet,              \* highest position of the segment the last callback set; -1: none
    rt,                   \* position of the thread running CoherenceNode::resetTFR
    ready,                \* CoherenceNode::ready
    nodeAlpha,            \* CoherenceNode::alpha, in units of 1/AlphaDen
    WhatisIT,             \* CoherenceNode::WhatisIT: 1 coherence, 0 spectrogram
    tfrGen,               \* CumulativeTFR objects constructed; 0: TFR is null
    tfrAlpha,             \* CumulativeTFR::alpha, in units of 1/AlphaDen
    spectrumBuffer,       \* CumulativeTFR::spectrumBuffer[chan][freq][time]
    powBuffer,            \* CumulativeTFR::powBuffer[chan][freq][time]
    pxys,                 \* CumulativeTFR::pxys[comb][freq][time]
    trials,               \* trials[chan]: calls of addTrial on this engine
    heap,                 \* containers constructed by calls on this engine
    windowLen,            \* CumulativeTFR::windowLen, seconds
    stepLen,              \* CumulativeTFR::stepLen, seconds, num/den
    trimTime,             \* CumulativeTFR::trimTime (int); -1: no engine yet
    tIndex,               \* tIndex of addTrial's loop, for t = 0, 1, ...
    res,                  \* the three instances of meanCoherence
    resW,                 \* the instance coherenceWriter names
    resOk,                \* value returned by the last meanCoherence.map()
    ttlpwr,               \* CoherenceNode::ttlpwr
    cohW,                 \* run()'s coherenceWriter is registered
    run,                  \* position of CoherenceNode::run
    shouldExit,           \* Thread::threadShouldExit()
    cycle,                \* analysis cycles begun by run()
    fed,                  \* number of the push of the segment the last cycle took
    activeInputs          \* the channels of the groups that getActiveInputs() returns

indices == <<readyToReadIndex, readyToWriteIndex, readyToWriteIndex2,
             writerIndex, readerIndex>>
counters == <<nWriters, nReaders>>
lockout == <<lk, hasReadLock, hasWriteLock, valid, resetResult,
             lkSawReader, lkSawWriter>>
pushes == <<pushCount, slotPush>>
fresh == <<recent, pushedSlot>>
ptrs == <<readPtrValid, sawUpdate, wasInvalid>>
access == <<aborted, outOfRange>>
mapper == <<mp, mapHasReadLock, mapHasWriteLock, mapValid, mapResult,
            mapSawReader, mapSawWriter, rt>>
accum == <<alpha, rSum, rCount, cSum, cCount, xs, zs>>
timing == <<windowLen, stepLen, trimTime, tIndex>>
engine == <<tfrGen, tfrAlpha, spectrumBuffer, powBuffer, pxys, trials, heap,
            timing>>
results == <<res, resW, resOk, ttlpwr, cohW>>
node == <<ready, nodeAlpha, WhatisIT, engine, results, run, shouldExit, cycle, fed, activeInputs>>
acq == <<nSamplesAdded, nSamplesWait, nSamplesWaited, numTrials, numArtifacts,
         callback, written, pushedWritten, sinceDiscard, lastSet, node>>
vars == <<indices, counters, wh, rh, lockout, assertFailed, pushes, observe,
          pullFloor, wOps, rOps, fresh, handlePushes, data, ptrs, releasedSlot,
          access, mapper, accum, acq>>

\* positions of a write handle: not constructed; constructed invalid; valid and
\* outside pushWrite; in pushWrite before the exchange of readyToWriteIndex;
\* in pushWrite before the exchange of readyToWriteIndex2
WritePositions == {"none", "invalid", "idle", "claim1", "claim2"}
WriteValid == {"idle", "claim1", "claim2"}
InPush == {"claim1", "claim2"}
\* positions of a read handle: "ctor" is registered and about to run
\* updateReaderIndex; "park" before the compare-exchange of readyToWriteIndex;
\* "park2" before the exchange of readyToWriteIndex2; "take" before the
\* exchange of readyToReadIndex
ReadPositions == {"none", "invalid", "ctor", "idle", "park", "park2", "take"}
ReadValid == {"ctor", "idle", "park", "park2", "take"}
InPull == {"park", "park2", "take"}
\* positions of reset(): "ctorW" after the lockout's checkoutReader; "locked"
\* with a valid lockout, before the assignments; "dtorR" and "dtorW" before the
\* lockout's destructor returns the reader and the writer
LockPositions == {"none", "ctorW", "locked", "dtorR", "dtorW"}

ValidWriters == {h \in WriteHandles : wh[h] \in WriteValid}
ValidReaders == {h \in ReadHandles : rh[h] \in ReadValid}

\* variant: hasUpdate() answers true whatever readyToReadIndex holds
hasUpdate_always == TRUE

hasUpdate == readyToReadIndex # Empty

\* pushes whose pushWrite has returned
PushesCompleted ==
    IF \E h \in WriteHandles : wh[h] \in InPush
    THEN pushCount - 1 ELSE pushCount

\* the number of the push that committed slot i
PushOf(i) == IF i \in Slots THEN slotPush[i] ELSE 0

\* ---------------------------------------------------------------- history
\* The history variables record what the properties speak of and no action
\* reads them; each specification records one history (observe) and leaves
\* the others at their initial values.

\* pullFloor: the pushes completed when updateReaderIndex begins
NoteFloor(n) == pullFloor' = IF observe = "order" THEN n ELSE pullFloor

\* wOps, rOps: the atomic operations of a call
NoteWriterOps(ops) == wOps' = IF observe = "ops" THEN ops ELSE wOps
NoteReaderOps(ops) == rOps' = IF observe = "ops" THEN ops ELSE rOps

\* recent, pushedSlot: a push, then a pull, with no step of anything else between
Note(r, slot) ==
    IF observe = "fresh"
    THEN recent' = r /\ pushedSlot' = slot
    ELSE UNCHANGED fresh
NoteOther == Note("other", Empty)
NotePushStart(done) == Note(IF done THEN "pushed" ELSE "pushing", writerIndex)
NotePushStep(done) ==
    IF recent = "pushing"
    THEN Note(IF done THEN "pushed" ELSE "pushing", pushedSlot)
    ELSE NoteOther
NotePullStart(h, done) ==
    IF recent = "pushed" /\ rh[h] = "idle"
    THEN Note(IF done THEN "pushPull" ELSE "pulling", pushedSlot)
    ELSE NoteOther
NotePullStep(done) ==
    IF recent = "pulling"
    THEN Note(IF done THEN "pushPull" ELSE "pulling", pushedSlot)
    ELSE NoteOther

\* releasedSlot: the writer's slot when a valid write handle is released
NoteReleased(slot) ==
    releasedSlot' = IF observe = "release" THEN slot ELSE releasedSlot

\* handlePushes: the calls of pushUpdate made through each write handle
NoteRounds(h, n) ==
    handlePushes' = IF observe = "rounds"
                    THEN [handlePushes EXCEPT ![h] = n]
                    ELSE handlePushes

\* wasInvalid: the read handles constructed registered and without data
NoteInvalid(handles) ==
    wasInvalid' = IF observe = "order" THEN handles ELSE wasInvalid

\* ------------------------------------------------------------ registration
\* variant: the writer registers without comparing
checkoutWriter_store(ok) ==
    /\ ok = TRUE
    /\ nWriters' = 1

\* nWriters.compare_exchange_strong(0, 1); ok is the value returned
checkoutWriter(ok) ==
    /\ ok = (nWriters = 0)
    /\ nWriters' = IF ok THEN 1 ELSE nWriters

returnWriter == nWriters' = 0

\* nReaders.compare_exchange_strong(0, 1); ok is the value returned
checkoutReader(ok) ==
    /\ ok = (nReaders = 0)
    /\ nReaders' = IF ok THEN 1 ELSE nReaders

returnReader == nReaders' = 0

\* ------------------------------------------------------------------ writer
\* variant: a new write handle exchanges its slot with readyToWriteIndex
ScopedWriteIndex_ctor_fresh(h) ==
    /\ wh[h] = "none"
    /\ \E ok \in BOOLEAN :
         /\ checkoutWriter(ok)
         /\ wh' = [wh EXCEPT ![h] = IF ok THEN "idle" ELSE "invalid"]
    /\ writerIndex' = readyToWriteIndex
    /\ readyToWriteIndex' = writerIndex
    /\ NoteRounds(h, 0)
    /\ NoteOther
    /\ UNCHANGED <<readyToReadIndex, readyToWriteIndex2, readerIndex, nReaders, rh, lockout, assertFailed, pushes,
                   observe,
                   data, mapper, access, accum, acq, ptrs, releasedSlot, pullFloor, wOps, rOps>>

\* ScopedWriteIndex(o): valid(o.checkoutWriter())
ScopedWriteIndex_ctor(h) ==
    /\ wh[h] = "none"
    /\ \E ok \in BOOLEAN :
         /\ checkoutWriter(ok)
         /\ wh' = [wh EXCEPT ![h] = IF ok THEN "idle" ELSE "invalid"]
    /\ NoteRounds(h, 0)
    /\ NoteOther
    /\ UNCHANGED <<indices, nReaders, rh, lockout, assertFailed, pushes,
                   observe,
                   data, mapper, access, accum, acq, ptrs, releasedSlot, pullFloor, wOps, rOps>>

\* variant: the destructor returns the writer whether the handle is valid or not
ScopedWriteIndex_dtor_always(h) ==
    /\ wh[h] \in {"idle", "invalid"}
    /\ returnWriter
    /\ wh' = [wh EXCEPT ![h] = "none"]
    /\ NoteReleased(IF wh[h] = "idle" THEN writerIndex ELSE releasedSlot)
    /\ NoteRounds(h, 0)
    /\ NoteOther
    /\ UNCHANGED <<indices, nReaders, rh, lockout, assertFailed, pushes,
                   observe,
                   data, mapper, access, accum, acq, ptrs, pullFloor, wOps, rOps>>

\* ~ScopedWriteIndex(): if (valid) owner->returnWriter()
ScopedWriteIndex_dtor(h) ==
    /\ wh[h] \in {"idle", "invalid"}
    /\ IF wh[h] = "idle" THEN returnWriter ELSE UNCHANGED nWriters
    /\ wh' = [wh EXCEPT ![h] = "none"]
    /\ NoteReleased(IF wh[h] = "idle" THEN writerIndex ELSE releasedSlot)
    /\ NoteRounds(h, 0)
    /\ NoteOther
    /\ UNCHANGED <<indices, nReaders, rh, lockout, assertFailed, pushes,
                   observe,
                   data, mapper, access, accum, acq, ptrs, pullFloor, wOps, rOps>>

\* variant: the writer publishes only into an empty readyToReadIndex and
\* otherwise keeps its slot
pushWrite_swap_ifEmpty(h) ==
    /\ wh[h] = "idle"
    /\ pushCount < MaxPushes
    /\ assertFailed' = (assertFailed \/ writerIndex = Empty)
    /\ IF readyToReadIndex = Empty
       THEN /\ writerIndex' = Empty
            /\ readyToReadIndex' = writerIndex
            /\ wh' = [wh EXCEPT ![h] = "claim1"]
       ELSE UNCHANGED <<writerIndex, readyToReadIndex, wh>>
    /\ pushCount' = pushCount + 1
    /\ slotPush' = [i \in Slots |-> IF i = writerIndex THEN pushCount + 1
                                    ELSE slotPush[i]]
    /\ NoteWriterOps(<<"xchg">>)
    /\ NotePushStart(readyToReadIndex # Empty)
    /\ NoteReleased(Empty)
    /\ NoteRounds(h, handlePushes[h] + 1)
    /\ UNCHANGED <<readyToWriteIndex, readyToWriteIndex2, readerIndex, counters,
                   rh, lockout, observe,
                   data, mapper, access, accum, acq, ptrs, pullFloor, rOps>>

\* variant: the push returns the writer registration
pushWrite_swap_release(h) ==
    /\ wh[h] = "idle"
    /\ pushCount < MaxPushes
    /\ assertFailed' = (assertFailed \/ writerIndex = Empty)
    /\ writerIndex' = readyToReadIndex
    /\ readyToReadIndex' = writerIndex
    /\ wh' = [wh EXCEPT ![h] = IF readyToReadIndex = Empty THEN "claim1" ELSE "idle"]
    /\ pushCount' = pushCount + 1
    /\ slotPush' = [i \in Slots |-> IF i = writerIndex THEN pushCount + 1
                                    ELSE slotPush[i]]
    /\ returnWriter
    /\ NoteWriterOps(<<"xchg">>)
    /\ NotePushStart(readyToReadIndex # Empty)
    /\ NoteReleased(Empty)
    /\ NoteRounds(h, handlePushes[h] + 1)
    /\ UNCHANGED <<readyToWriteIndex, readyToWriteIndex2, readerIndex, nReaders,
                   rh, lockout, observe,
                   data, mapper, access, accum, acq, ptrs, pullFloor, rOps>>

\* variant: the push also copies the pushed instance over the one it takes back
pushWrite_swap_copy(h) ==
    /\ wh[h] = "idle"
    /\ pushCount < MaxPushes
    /\ assertFailed' = (assertFailed \/ writerIndex = Empty)
    /\ writerIndex' = readyToReadIndex
    /\ readyToReadIndex' = writerIndex
    /\ wh' = [wh EXCEPT ![h] = IF readyToReadIndex = Empty THEN "claim1" ELSE "idle"]
    /\ pushCount' = pushCount + 1
    /\ slotPush' = [i \in Slots |-> IF i = writerIndex THEN pushCount + 1
                                    ELSE slotPush[i]]
    /\ data' = [i \in Slots |-> IF i = readyToReadIndex THEN data[writerIndex]
                                ELSE data[i]]
    /\ NoteWriterOps(<<"xchg">>)
    /\ NotePushStart(readyToReadIndex # Empty)
    /\ NoteReleased(Empty)
    /\ NoteRounds(h, handlePushes[h] + 1)
    /\ UNCHANGED <<readyToWriteIndex, readyToWriteIndex2, readerIndex, counters,
                   rh, lockout, observe,
                   mapper, access, accum, acq, ptrs, pullFloor, rOps>>

\* assert(writerIndex != -1);
\* writerIndex = readyToReadIndex.exchange(writerIndex)
pushWrite_swap(h) ==
    /\ wh[h] = "idle"
    /\ pushCount < MaxPushes
    /\ assertFailed' = (assertFailed \/ writerIndex = Empty)
    /\ writerIndex' = readyToReadIndex
    /\ readyToReadIndex' = writerIndex
    /\ wh' = [wh EXCEPT ![h] = IF readyToReadIndex = Empty THEN "claim1" ELSE "idle"]
    /\ pushCount' = pushCount + 1
    /\ slotPush' = [i \in Slots |-> IF i = writerIndex THEN pushCount + 1
                                    ELSE slotPush[i]]
    /\ NoteWriterOps(<<"xchg">>)
    /\ NotePushStart(readyToReadIndex # Empty)
    /\ NoteReleased(Empty)
    /\ NoteRounds(h, handlePushes[h] + 1)
    /\ UNCHANGED <<readyToWriteIndex, readyToWriteIndex2, readerIndex, counters,
                   rh, lockout, observe,
                   data, mapper, access, accum, acq, ptrs, pullFloor, rOps>>

\* variant: the writer reads readyToWriteIndex without emptying it
pushWrite_claim1_load(h) ==
    /\ wh[h] = "claim1"
    /\ writerIndex' = readyToWriteIndex
    /\ wh' = [wh EXCEPT ![h] = IF readyToWriteIndex = Empty THEN "claim2" ELSE "idle"]
    /\ NoteWriterOps(Append(wOps, "xchg"))
    /\ NotePushStep(readyToWriteIndex # Empty)
    /\ UNCHANGED <<readyToReadIndex, readyToWriteIndex, readyToWriteIndex2,
                   readerIndex, counters, rh, lockout, assertFailed, pushes,
                   observe, handlePushes,
                   data, mapper, access, accum, acq, ptrs, releasedSlot, pullFloor, rOps>>

\* variant: the writer does not fall back to readyToWriteIndex2
pushWrite_claim1_only(h) ==
    /\ wh[h] = "claim1"
    /\ writerIndex' = readyToWriteIndex
    /\ readyToWriteIndex' = Empty
    /\ assertFailed' = (assertFailed \/ readyToWriteIndex = Empty)
    /\ wh' = [wh EXCEPT ![h] = "idle"]
    /\ NoteWriterOps(Append(wOps, "xchg"))
    /\ NotePushStep(TRUE)
    /\ UNCHANGED <<readyToReadIndex, readyToWriteIndex2, readerIndex, counters,
                   rh, lockout, pushes, observe, handlePushes,
                   data, mapper, access, accum, acq, ptrs, releasedSlot, pullFloor, rOps>>

\* writerIndex = readyToWriteIndex.exchange(-1)
pushWrite_claim1(h) ==
    /\ wh[h] = "claim1"
    /\ writerIndex' = readyToWriteIndex
    /\ readyToWriteIndex' = Empty
    /\ wh' = [wh EXCEPT ![h] = IF readyToWriteIndex = Empty THEN "claim2" ELSE "idle"]
    /\ NoteWriterOps(Append(wOps, "xchg"))
    /\ NotePushStep(readyToWriteIndex # Empty)
    /\ UNCHANGED <<readyToReadIndex, readyToWriteIndex2, readerIndex, counters,
                   rh, lockout, assertFailed, pushes, observe, handlePushes,
                   data, mapper, access, accum, acq, ptrs, releasedSlot, pullFloor, rOps>>

\* writerIndex = readyToWriteIndex2.exchange(-1); assert(writerIndex != -1)
pushWrite_claim2(h) ==
    /\ wh[h] = "claim2"
    /\ writerIndex' = readyToWriteIndex2
    /\ readyToWriteIndex2' = Empty
    /\ assertFailed' = (assertFailed \/ readyToWriteIndex2 = Empty)
    /\ wh' = [wh EXCEPT ![h] = "idle"]
    /\ NoteWriterOps(Append(wOps, "xchg"))
    /\ NotePushStep(TRUE)
    /\ UNCHANGED <<readyToReadIndex, readyToWriteIndex, readerIndex, counters,
                   rh, lockout, pushes, observe, handlePushes,
                   data, mapper, access, accum, acq, ptrs, releasedSlot, pullFloor, rOps>>

\* ------------------------------------------------------------------ reader
\* ScopedReadIndex(o): valid(o.checkoutReader())
ScopedReadIndex_ctor(h) ==
    /\ rh[h] = "none"
    /\ \E ok \in BOOLEAN :
         /\ checkoutReader(ok)
         /\ rh' = [rh EXCEPT ![h] = IF ok THEN "ctor" ELSE "invalid"]
    /\ readPtrValid' = [readPtrValid EXCEPT ![h] = FALSE]
    /\ NoteOther
    /\ UNCHANGED <<indices, nWriters, wh, lockout, assertFailed, pushes,
                   observe, handlePushes,
                   data, mapper, access, accum, acq, releasedSlot, pullFloor,
                   wOps, rOps, sawUpdate, wasInvalid>>

\* ~ScopedReadIndex(): if (valid) owner->returnReader()
ScopedReadIndex_dtor(h) ==
    /\ rh[h] \in {"idle", "invalid"}
    /\ IF rh[h] = "idle" THEN returnReader ELSE UNCHANGED nReaders
    /\ rh' = [rh EXCEPT ![h] = "none"]
    /\ readPtrValid' = [readPtrValid EXCEPT ![h] = FALSE]
    /\ NoteInvalid(wasInvalid \ {h})
    /\ NoteOther
    /\ UNCHANGED <<indices, nWriters, wh, lockout, assertFailed, pushes,
                   observe, handlePushes,
                   data, mapper, access, accum, acq, releasedSlot, pullFloor,
                   wOps, rOps, sawUpdate>>

\* variant: a read pointer is valid whenever its index is registered
ScopedReadPtr_valid_registered(h, ind) ==
    readPtrValid' = [readPtrValid EXCEPT ![h] = TRUE]

\* ScopedReadPtr: valid(ind != -1), and in pullUpdate valid = ind != -1, where
\* ind is the ScopedReadIndex converted to int
ScopedReadPtr_valid(h, ind) ==
    readPtrValid' = [readPtrValid EXCEPT ![h] = (ind # Empty)]

\* updateReaderIndex, called by the constructor ("ctor") and by pullUpdate
\* ("idle"): if (readyToReadIndex != -1) { if (readerIndex != -1) ...
updateReaderIndex_load(h) ==
    /\ rh[h] \in {"ctor", "idle"}
    /\ rh' = [rh EXCEPT ![h] = IF readyToReadIndex = Empty THEN "idle"
                               ELSE IF readerIndex = Empty THEN "take"
                               ELSE "park"]
    /\ NoteFloor(PushesCompleted)
    /\ NoteReaderOps(<<"load">>)
    /\ NotePullStart(h, readyToReadIndex = Empty)
    /\ IF readyToReadIndex = Empty
       THEN /\ ScopedReadPtr_valid(h, readerIndex)
            /\ sawUpdate' = 0
            /\ NoteInvalid(IF rh[h] = "ctor" /\ readerIndex = Empty
                           THEN wasInvalid \cup {h} ELSE wasInvalid)
       ELSE UNCHANGED ptrs
    /\ UNCHANGED <<indices, counters, wh, lockout, assertFailed, pushes,
                   observe, handlePushes,
                   data, mapper, access, accum, acq, releasedSlot, wOps>>

\* variant: the reader parks by an unconditional exchange into readyToWriteIndex
updateReaderIndex_park_overwrite(h) ==
    /\ rh[h] = "park"
    /\ readyToWriteIndex' = readerIndex
    /\ rh' = [rh EXCEPT ![h] = "take"]
    /\ NoteReaderOps(Append(rOps, "xchg"))
    /\ NotePullStep(FALSE)
    /\ UNCHANGED <<readyToReadIndex, readyToWriteIndex2, writerIndex, readerIndex,
                   counters, wh, lockout, assertFailed, pushes, observe, handlePushes,
                   data, mapper, access, accum, acq, ptrs, releasedSlot,
                   pullFloor, wOps>>

\* variant: the reader retries the compare-exchange until readyToWriteIndex is free
updateReaderIndex_park_retry(h) ==
    /\ rh[h] = "park"
    /\ IF readyToWriteIndex = Empty
       THEN /\ readyToWriteIndex' = readerIndex
            /\ rh' = [rh EXCEPT ![h] = "take"]
       ELSE UNCHANGED <<readyToWriteIndex, rh>>
    /\ NoteReaderOps(Append(rOps, "cas"))
    /\ NotePullStep(FALSE)
    /\ UNCHANGED <<readyToReadIndex, readyToWriteIndex2, writerIndex, readerIndex,
                   counters, wh, lockout, assertFailed, pushes, observe, handlePushes,
                   data, mapper, access, accum, acq, ptrs, releasedSlot,
                   pullFloor, wOps>>

\* expected = -1;
\* readyToWriteIndex.compare_exchange_strong(expected, readerIndex)
updateReaderIndex_park(h) ==
    /\ rh[h] = "park"
    /\ IF readyToWriteIndex = Empty
       THEN /\ readyToWriteIndex' = readerIndex
            /\ rh' = [rh EXCEPT ![h] = "take"]
       ELSE /\ UNCHANGED readyToWriteIndex
            /\ rh' = [rh EXCEPT ![h] = "park2"]
    /\ NoteReaderOps(Append(rOps, "cas"))
    /\ NotePullStep(FALSE)
    /\ UNCHANGED <<readyToReadIndex, readyToWriteIndex2, writerIndex, readerIndex,
                   counters, wh, lockout, assertFailed, pushes, observe, handlePushes,
                   data, mapper, access, accum, acq, ptrs, releasedSlot,
                   pullFloor, wOps>>

\* readyToWriteIndex2.exchange(readerIndex)
updateReaderIndex_park2(h) ==
    /\ rh[h] = "park2"
    /\ readyToWriteIndex2' = readerIndex
    /\ rh' = [rh EXCEPT ![h] = "take"]
    /\ NoteReaderOps(Append(rOps, "xchg"))
    /\ NotePullStep(FALSE)
    /\ UNCHANGED <<readyToReadIndex, readyToWriteIndex, writerIndex, readerIndex,
                   counters, wh, lockout, assertFailed, pushes, observe, handlePushes,
                   data, mapper, access, accum, acq, ptrs, releasedSlot,
                   pullFloor, wOps>>

\* variant: the reader takes the index by a load, leaving readyToReadIndex set
updateReaderIndex_take_load(h) ==
    /\ rh[h] = "take"
    /\ readerIndex' = readyToReadIndex
    /\ rh' = [rh EXCEPT ![h] = "idle"]
    /\ NoteReaderOps(Append(rOps, "xchg"))
    /\ NotePullStep(TRUE)
    /\ ScopedReadPtr_valid(h, readyToReadIndex)
    /\ sawUpdate' = 0
    /\ UNCHANGED wasInvalid
    /\ UNCHANGED <<readyToReadIndex, readyToWriteIndex, readyToWriteIndex2,
                   writerIndex, counters, wh, lockout, assertFailed, pushes,
                   observe, handlePushes,
                   data, mapper, access, accum, acq, releasedSlot, pullFloor, wOps>>

\* variant: the reader exchanges readerIndex into readyToReadIndex
updateReaderIndex_take_swap(h) ==
    /\ rh[h] = "take"
    /\ readerIndex' = readyToReadIndex
    /\ readyToReadIndex' = readerIndex
    /\ rh' = [rh EXCEPT ![h] = "idle"]
    /\ NoteReaderOps(Append(rOps, "xchg"))
    /\ NotePullStep(TRUE)
    /\ ScopedReadPtr_valid(h, readyToReadIndex)
    /\ sawUpdate' = 0
    /\ UNCHANGED wasInvalid
    /\ UNCHANGED <<readyToWriteIndex, readyToWriteIndex2, writerIndex, counters,
                   wh, lockout, assertFailed, pushes, observe, handlePushes,
                   data, mapper, access, accum, acq, releasedSlot, pullFloor, wOps>>

\* readerIndex = readyToReadIndex.exchange(-1)
updateReaderIndex_take(h) ==
    /\ rh[h] = "take"
    /\ readerIndex' = readyToReadIndex
    /\ readyToReadIndex' = Empty
    /\ rh' = [rh EXCEPT ![h] = "idle"]
    /\ NoteReaderOps(Append(rOps, "xchg"))
    /\ NotePullStep(TRUE)
    /\ ScopedReadPtr_valid(h, readyToReadIndex)
    /\ sawUpdate' = 0
    /\ UNCHANGED wasInvalid
    /\ UNCHANGED <<readyToWriteIndex, readyToWriteIndex2, writerIndex, counters,
                   wh, lockout, assertFailed, pushes, observe, handlePushes,
                   data, mapper, access, accum, acq, releasedSlot, pullFloor, wOps>>

\* ----------------------------------------------------------------- reset()
\* variant: the lockout is valid when either registration succeeded
ScopedLockout_valid_either(r, w) == r \/ w

\* ScopedLockout: valid(hasReadLock && hasWriteLock)
ScopedLockout_valid(r, w) == r /\ w

\* ScopedLockout lock(*this): hasReadLock(o.checkoutReader())
reset_checkoutReader ==
    /\ lk = "none"
    /\ \E ok \in BOOLEAN :
         /\ checkoutReader(ok)
         /\ hasReadLock' = ok
    /\ lkSawReader' = (ValidReaders # {})
    /\ lk' = "ctorW"
    /\ NoteOther
    /\ UNCHANGED <<indices, nWriters, wh, rh, hasWriteLock, valid, resetResult,
                   lkSawWriter, assertFailed, pushes, observe, handlePushes,
                   data, mapper, access, accum, acq, ptrs, releasedSlot, pullFloor,
                   wOps, rOps>>

\* hasWriteLock(o.checkoutWriter()), valid(hasReadLock && hasWriteLock);
\* if (!lock.isValid()) return false
reset_checkoutWriter ==
    /\ lk = "ctorW"
    /\ \E ok \in BOOLEAN :
         /\ checkoutWriter(ok)
         /\ hasWriteLock' = ok
         /\ valid' = ScopedLockout_valid(hasReadLock, ok)
    /\ lk' = IF valid' THEN "locked" ELSE "dtorR"
    /\ lkSawWriter' = (ValidWriters # {})
    /\ NoteOther
    /\ UNCHANGED <<indices, nReaders, wh, rh, hasReadLock, resetResult,
                   lkSawReader, assertFailed, pushes, observe, handlePushes,
                   data, mapper, access, accum, acq, ptrs, releasedSlot, pullFloor,
                   wOps, rOps>>

\* variant: reset() leaves readyToWriteIndex2 empty
reset_assign_one ==
    /\ lk = "locked"
    /\ readyToReadIndex' = Empty
    /\ readyToWriteIndex' = 0
    /\ readyToWriteIndex2' = Empty
    /\ writerIndex' = 2
    /\ readerIndex' = Empty
    /\ lk' = "dtorR"
    /\ pushCount' = 0
    /\ slotPush' = [i \in Slots |-> 0]
    /\ NoteFloor(0)
    /\ NoteReleased(Empty)
    /\ NoteOther
    /\ UNCHANGED <<counters, wh, rh, hasReadLock, hasWriteLock, valid,
                   resetResult, lkSawReader, lkSawWriter, assertFailed,
                   observe, handlePushes,
                   data, mapper, access, accum, acq, ptrs, wOps, rOps>>

\* the five assignments of reset(), made while the lockout is valid
reset_assign ==
    /\ lk = "locked"
    /\ readyToReadIndex' = Empty
    /\ readyToWriteIndex' = 0
    /\ readyToWriteIndex2' = 1
    /\ writerIndex' = 2
    /\ readerIndex' = Empty
    /\ lk' = "dtorR"
    /\ pushCount' = 0
    /\ slotPush' = [i \in Slots |-> 0]
    /\ NoteFloor(0)
    /\ NoteReleased(Empty)
    /\ NoteOther
    /\ UNCHANGED <<counters, wh, rh, hasReadLock, hasWriteLock, valid,
                   resetResult, lkSawReader, lkSawWriter, assertFailed,
                   observe, handlePushes,
                   data, mapper, access, accum, acq, ptrs, wOps, rOps>>

\* variant: the lockout returns the reader whether it holds it or not
reset_returnReader_always ==
    /\ lk = "dtorR"
    /\ returnReader
    /\ lk' = "dtorW"
    /\ NoteOther
    /\ UNCHANGED <<indices, nWriters, wh, rh, hasReadLock, hasWriteLock, valid,
                   resetResult, lkSawReader, lkSawWriter, assertFailed, pushes,
                   observe, handlePushes,
                   data, mapper, access, accum, acq, ptrs, releasedSlot, pullFloor, wOps, rOps>>

\* ~ScopedLockout: if (hasReadLock) owner->returnReader()
reset_returnReader ==
    /\ lk = "dtorR"
    /\ IF hasReadLock THEN returnReader ELSE UNCHANGED nReaders
    /\ lk' = "dtorW"
    /\ NoteOther
    /\ UNCHANGED <<indices, nWriters, wh, rh, hasReadLock, hasWriteLock, valid,
                   resetResult, lkSawReader, lkSawWriter, assertFailed, pushes,
                   observe, handlePushes,
                   data, mapper, access, accum, acq, ptrs, releasedSlot, pullFloor, wOps, rOps>>

\* ~ScopedLockout: if (hasWriteLock) owner->returnWriter(); reset() returns
\* true after the assignments, false when the lockout was not valid
reset_returnWriter ==
    /\ lk = "dtorW"
    /\ IF hasWriteLock THEN returnWriter ELSE UNCHANGED nWriters
    /\ resetResult' = valid
    /\ lk' = "none"
    /\ hasReadLock' = FALSE
    /\ hasWriteLock' = FALSE
    /\ valid' = FALSE
    /\ lkSawReader' = FALSE
    /\ lkSawWriter' = FALSE
    /\ NoteOther
    /\ UNCHANGED <<indices, nReaders, wh, rh, assertFailed, pushes, observe, handlePushes,
                   data, mapper, access, accum, acq, ptrs, releasedSlot,
                   pullFloor, wOps, rOps>>

\* ------------------------------------------------------ AtomicallyShared<T>
\* the lockout of reset() holds the writer (reader) registration
LockoutHoldsWriter == hasWriteLock /\ lk \in {"locked", "dtorR", "dtorW"}
LockoutHoldsReader == hasReadLock /\ lk \in {"ctorW", "locked", "dtorR"}

\* the lockout of map() holds the writer (reader) registration
MapHoldsWriter == mapHasWriteLock /\ mp \in {"locked", "dtorR", "dtorW"}
MapHoldsReader == mapHasReadLock /\ mp \in {"ctorW", "locked", "dtorR"}

\* the registrations held: by valid handles and by the lockouts
WriterRegistrations ==
    Cardinality(ValidWriters) + (IF LockoutHoldsWriter THEN 1 ELSE 0)
                              + (IF MapHoldsWriter THEN 1 ELSE 0)
ReaderRegistrations ==
    Cardinality(ValidReaders) + (IF LockoutHoldsReader THEN 1 ELSE 0)
                              + (IF MapHoldsReader THEN 1 ELSE 0)

\* the sizes map() may give an instance
Sizes == 0..MaxSize

\* an instance of T: what the writer last stored in it and the size map() gave it
Instances == [content : 0..(MaxPushes + 1), size : Sizes]

\* ScopedWriteIndex::operator int: valid ? owner->writerIndex : -1
ScopedWriteIndex_int(h) == IF wh[h] \in WriteValid THEN writerIndex ELSE Empty

\* ScopedReadIndex::operator int: valid ? owner->readerIndex : -1
ScopedReadIndex_int(h) == IF rh[h] \in ReadValid THEN readerIndex ELSE Empty

\* ScopedWritePtr: valid(ind.isValid())
ScopedWritePtr_isValid(h) == wh[h] \in WriteValid

\* ScopedReadPtr::isValid
ScopedReadPtr_isValid(h) == readPtrValid[h]

\* hasUpdate(): return readyToReadIndex != -1; the caller keeps the result
hasUpdate_call ==
    /\ sawUpdate' = IF hasUpdate THEN pushCount ELSE 0
    /\ UNCHANGED <<indices, counters, wh, rh, lockout, assertFailed, pushes,
                   observe, handlePushes, pullFloor, wOps, rOps, fresh, data, readPtrValid,
                   wasInvalid, releasedSlot, access, mapper, accum, acq>>

\* ScopedWritePtr::operator*: if (!valid) abort; return owner->data[ind]; the
\* writer stores through the reference the number of the segment it is filling
ScopedWritePtr_deref(h) ==
    /\ wh[h] \in {"idle", "invalid"}
    /\ IF ~ScopedWritePtr_isValid(h)
       THEN /\ aborted' = TRUE
            /\ UNCHANGED <<outOfRange, data>>
       ELSE LET ind == ScopedWriteIndex_int(h) IN
            /\ outOfRange' = (outOfRange \/ ind = Empty)
            /\ data' = IF ind \in Slots
                       THEN [data EXCEPT ![ind].content = pushCount + 1]
                       ELSE data
            /\ UNCHANGED aborted
    /\ UNCHANGED <<indices, counters, wh, rh, lockout, assertFailed, pushes,
                   observe, handlePushes, pullFloor, wOps, rOps, fresh, ptrs, releasedSlot,
                   mapper, accum, acq>>

\* variant: operator* uses the index without looking at valid
ScopedReadPtr_deref_unchecked(h) ==
    /\ rh[h] \in {"idle", "invalid"}
    /\ outOfRange' = (outOfRange \/ ScopedReadIndex_int(h) = Empty)
    /\ UNCHANGED <<indices, counters, wh, rh, lockout, assertFailed, pushes,
                   observe, handlePushes, pullFloor, wOps, rOps, fresh, data, ptrs,
                   releasedSlot, aborted, mapper, accum, acq>>

\* ScopedReadPtr::operator*: if (!valid) abort; return owner->data[ind]
ScopedReadPtr_deref(h) ==
    /\ rh[h] \in {"idle", "invalid"}
    /\ IF ~ScopedReadPtr_isValid(h)
       THEN /\ aborted' = TRUE
            /\ UNCHANGED outOfRange
       ELSE /\ outOfRange' = (outOfRange \/ ScopedReadIndex_int(h) = Empty)
            /\ UNCHANGED aborted
    /\ UNCHANGED <<indices, counters, wh, rh, lockout, assertFailed, pushes,
                   observe, handlePushes, pullFloor, wOps, rOps, fresh, data, ptrs,
                   releasedSlot, mapper, accum, acq>>

\* the function CoherenceNode gives map(): resize the instance
resize(obj, newSize) == [obj EXCEPT !.size = newSize]

\* map(): ScopedLockout lock(sync): hasReadLock(o.checkoutReader())
map_checkoutReader ==
    /\ mp = "none"
    /\ \E ok \in BOOLEAN :
         /\ checkoutReader(ok)
         /\ mapHasReadLock' = ok
    /\ mapSawReader' = (ReaderRegistrations > 0)
    /\ mp' = "ctorW"
    /\ UNCHANGED <<rt, indices, nWriters, wh, rh, lockout, assertFailed, pushes,
                   observe, handlePushes, pullFloor, wOps, rOps, fresh, data, ptrs,
                   releasedSlot, access, mapHasWriteLock, mapValid, mapResult,
                   mapSawWriter, accum, acq>>

\* hasWriteLock(o.checkoutWriter()), valid(hasReadLock && hasWriteLock);
\* if (!lock.isValid()) return false
map_checkoutWriter ==
    /\ mp = "ctorW"
    /\ \E ok \in BOOLEAN :
         /\ checkoutWriter(ok)
         /\ mapHasWriteLock' = ok
         /\ mapValid' = ScopedLockout_valid(mapHasReadLock, ok)
    /\ mp' = IF mapValid' THEN "locked" ELSE "dtorR"
    /\ mapSawWriter' = (WriterRegistrations > 0)
    /\ UNCHANGED <<rt, indices, nReaders, wh, rh, lockout, assertFailed, pushes,
                   observe, handlePushes, pullFloor, wOps, rOps, fresh, data, ptrs,
                   releasedSlot, access, mapHasReadLock, mapResult,
                   mapSawReader, accum, acq>>

\* variant: map() applies the function to the first instance only
map_apply_first ==
    /\ mp = "locked"
    /\ \E newSize \in Sizes :
         data' = [data EXCEPT ![0] = resize(data[0], newSize)]
    /\ mp' = "dtorR"
    /\ UNCHANGED <<rt, indices, counters, wh, rh, lockout, assertFailed, pushes,
                   observe, handlePushes, pullFloor, wOps, rOps, fresh, ptrs, releasedSlot,
                   access, mapHasReadLock, mapHasWriteLock, mapValid,
                   mapResult, mapSawReader, mapSawWriter, accum, acq>>

\* for (T& obj : data) f(obj), made while the lockout is valid
map_apply ==
    /\ mp = "locked"
    /\ \E newSize \in Sizes :
         data' = [i \in Slots |-> resize(data[i], newSize)]
    /\ mp' = "dtorR"
    /\ UNCHANGED <<rt, indices, counters, wh, rh, lockout, assertFailed, pushes,
                   observe, handlePushes, pullFloor, wOps, rOps, fresh, ptrs, releasedSlot,
                   access, mapHasReadLock, mapHasWriteLock, mapValid,
                   mapResult, mapSawReader, mapSawWriter, accum, acq>>

\* ~ScopedLockout: if (hasReadLock) owner->returnReader()
map_returnReader ==
    /\ mp = "dtorR"
    /\ IF mapHasReadLock THEN returnReader ELSE UNCHANGED nReaders
    /\ mp' = "dtorW"
    /\ UNCHANGED <<rt, indices, nWriters, wh, rh, lockout, assertFailed, pushes,
                   observe, handlePushes, pullFloor, wOps, rOps, fresh, data, ptrs,
                   releasedSlot, access, mapHasReadLock, mapHasWriteLock,
                   mapValid, mapResult, mapSawReader, mapSawWriter, accum, acq>>

\* ~ScopedLockout: if (hasWriteLock) owner->returnWriter(); map() returns true
\* after the loop, false when the lockout was not valid; when resetTFR() made
\* the call through updateDataBufferSize(), it goes on without the result
map_returnWriter ==
    /\ mp = "dtorW"
    /\ IF mapHasWriteLock THEN returnWriter ELSE UNCHANGED nWriters
    /\ mapResult' = mapValid
    /\ mp' = "none"
    /\ mapHasReadLock' = FALSE
    /\ mapHasWriteLock' = FALSE
    /\ mapValid' = FALSE
    /\ mapSawReader' = FALSE
    /\ mapSawWriter' = FALSE
    /\ rt' = IF rt = "data" THEN "results" ELSE rt
    /\ UNCHANGED <<indices, nReaders, wh, rh, lockout, assertFailed, pushes,
                   observe, handlePushes, pullFloor, wOps, rOps, fresh, data, ptrs,
                   releasedSlot, access, accum, acq>>

\* ---------------------------------------------------- CumulativeTFR accums
\* A double is modelled as the rational num/den it stands for (den > 0), with
\* no rounding; a std::complex<double> as re/den + i im/den.
Alphas == 0..AlphaDen
Values == (0 - 1)..MaxValue
ComplexValues == Values \X Values

RECURSIVE Pow(_, _)
Pow(b, n) == IF n = 0 THEN 1 ELSE b * Pow(b, n - 1)

\* sum = x + (1 - alpha) * sum, with alpha = a / AlphaDen
RealWeightedAccum_sum(a, sum, x) ==
    [num |-> x * sum.den * AlphaDen + (AlphaDen - a) * sum.num,
     den |-> sum.den * AlphaDen]

ComplexWeightedAccum_sum(a, sum, z) ==
    [re |-> z[1] * sum.den * AlphaDen + (AlphaDen - a) * sum.re,
     im |-> z[2] * sum.den * AlphaDen + (AlphaDen - a) * sum.im,
     den |-> sum.den * AlphaDen]

\* variant: count is set to 1 by every call
WeightedAccum_count_one(a, count) == 1

\* count = 1 + (1 - alpha) * count, where count is a size_t: the double on the
\* right is converted to size_t, which drops its fraction
WeightedAccum_count(a, count) == 1 + ((AlphaDen - a) * count) \div AlphaDen

\* return count > 0 ? sum / (double)count : double()
RealWeightedAccum_getAverage(sum, count) ==
    IF count > 0
    THEN [num |-> sum.num, den |-> sum.den * count]
    ELSE [num |-> 0, den |-> 1]

\* return count > 0 ? sum / (double)count : std::complex<double>()
ComplexWeightedAccum_getAverage(sum, count) ==
    IF count > 0
    THEN [re |-> sum.re, im |-> sum.im, den |-> sum.den * count]
    ELSE [re |-> 0, im |-> 0, den |-> 1]

accumFrame ==
    UNCHANGED <<indices, counters, wh, rh, lockout, assertFailed, pushes,
                observe, handlePushes, pullFloor, wOps, rOps, fresh, data, ptrs,
                releasedSlot, access, mapper, acq, alpha>>

\* RealWeightedAccum::addValue(x)
RealWeightedAccum_addValue(x) ==
    /\ Len(xs) + Len(zs) < MaxAdds
    /\ rSum' = RealWeightedAccum_sum(alpha, rSum, x)
    /\ rCount' = WeightedAccum_count(alpha, rCount)
    /\ xs' = Append(xs, x)
    /\ UNCHANGED <<cSum, cCount, zs>>
    /\ accumFrame

\* ComplexWeightedAccum::addValue(x)
ComplexWeightedAccum_addValue(z) ==
    /\ Len(xs) + Len(zs) < MaxAdds
    /\ cSum' = ComplexWeightedAccum_sum(alpha, cSum, z)
    /\ cCount' = WeightedAccum_count(alpha, cCount)
    /\ zs' = Append(zs, z)
    /\ UNCHANGED <<rSum, rCount, xs>>
    /\ accumFrame

\* RealWeightedAccum(alpha), ComplexWeightedAccum(alpha): count(0), sum(0)
AccumInit ==
    /\ rSum = [num |-> 0, den |-> 1]
    /\ rCount = 0
    /\ cSum = [re |-> 0, im |-> 0, den |-> 1]
    /\ cCount = 0
    /\ xs = <<>>
    /\ zs = <<>>

\* --------------------------------------------------------- CumulativeTFR
\* The engine is built for nGroup1Chans = 1 and nGroup2Chans = NumChans - 1:
\* channel 1 is paired with every other channel.  The FFT, the wavelets and
\* the inverse FFT are not modelled: extract gives the value the inverse FFT
\* holds at a time of interest.  A double that is not finite has den = 0:
\* 0/0 is NaN, n/0 with n # 0 an infinity.
Chans == 1..NumChans
Combs == 1..(NumChans - 1)
itX(comb) == 1
itY(comb) == comb + 1
Freqs == 1..nFreqs
Times == 1..nTimes
Segments == 0..MaxValue

ZeroReal == [num |-> 0, den |-> 1]
ZeroComplex == [re |-> 0, im |-> 0, den |-> 1]
NaN == [num |-> 0, den |-> 0]

\* the other variables of the model, which no step of the engine changes
acqVars == <<nSamplesAdded, nSamplesWait, nSamplesWaited, numTrials,
             numArtifacts, callback, written, pushedWritten, sinceDiscard, lastSet>>
nodeFrame ==
    UNCHANGED <<indices, counters, wh, rh, lockout, assertFailed, pushes,
                observe, handlePushes, pullFloor, wOps, rOps, fresh, data, ptrs,
                releasedSlot, access, accum>>

\* ifftBuffer.getAsComplex(tIndex), scaled, for a segment holding seg
extract(seg, f, t) == <<seg, seg * ((f + t) % 2)>>

\* std::norm(z)
norm(z) == z[1] * z[1] + z[2] * z[2]

\* spectrumBuffer[itX][f][t] * std::conj(spectrumBuffer[itY][f][t])
crss(x, y) == <<x[1] * y[1] + x[2] * y[2], x[2] * y[1] - x[1] * y[2]>>

\* RealWeightedAccum::addValue, ComplexWeightedAccum::addValue on an
\* accumulator of the engine
RealWeightedAccum_add(acc, x) ==
    [acc EXCEPT !.sum = RealWeightedAccum_sum(acc.alpha, acc.sum, x),
                !.count = WeightedAccum_count(acc.alpha, acc.count)]
ComplexWeightedAccum_add(acc, z) ==
    [acc EXCEPT !.sum = ComplexWeightedAccum_sum(acc.alpha, acc.sum, z),
                !.count = WeightedAccum_count(acc.alpha, acc.count)]

\* the same number in lowest terms
RECURSIVE Gcd(_, _)
Gcd(m, n) == IF n = 0 THEN m ELSE Gcd(n, m % n)
Abs(n) == IF n < 0 THEN 0 - n ELSE n
Lowest(q) ==
    LET g == Gcd(Abs(q.num), Abs(q.den))
    IN  IF g = 0 THEN q
        ELSE IF q.den = 0 THEN [num |-> 1, den |-> 0]
        ELSE [num |-> q.num \div g, den |-> q.den \div g]
LowestComplex(z) ==
    LET g == Gcd(Gcd(Abs(z.re), Abs(z.im)), Abs(z.den))
    IN  [re |-> z.re \div g, im |-> z.im \div g, den |-> z.den \div g]

\* variant: a pair without power has coherence 0
singleCoherence_guarded(pxx, pyy, pxy) ==
    IF pxx.num = 0 \/ pyy.num = 0
    THEN ZeroReal
    ELSE LET x == Lowest(pxx)
             y == Lowest(pyy)
             z == LowestComplex(pxy)
         IN  Lowest([num |-> (z.re * z.re + z.im * z.im) * x.den * y.den,
                     den |-> z.den * z.den * x.num * y.num])

\* singleCoherence: std::norm(pxy) / (pxx * pyy), in IEEE arithmetic
singleCoherence(pxx, pyy, pxy) ==
    LET x == Lowest(pxx)
        y == Lowest(pyy)
        z == LowestComplex(pxy)
    IN  Lowest([num |-> (z.re * z.re + z.im * z.im) * x.den * y.den,
                den |-> z.den * z.den * x.num * y.num])

\* StatisticsAccumulator<double>::addValue: the running sum
RealAccum_addValue(sum, v) ==
    IF sum.den = 0 \/ v.den = 0
    THEN IF (sum.den = 0 /\ sum.num = 0) \/ (v.den = 0 /\ v.num = 0)
         THEN NaN
         ELSE [num |-> 1, den |-> 0]
    ELSE Lowest([num |-> sum.num * v.den + v.num * sum.den,
                 den |-> sum.den * v.den])

\* coh.getAverage() after coh.addValue for every time bin from t on
RECURSIVE RealAccum_sum(_, _)
RealAccum_sum(coh, t) ==
    IF t > nTimes THEN ZeroReal
    ELSE RealAccum_addValue(RealAccum_sum(coh, t + 1), coh[t])
RealAccum_getAverage(coh) ==
    LET sum == RealAccum_sum(coh, 1)
    IN  Lowest([num |-> sum.num, den |-> sum.den * nTimes])

\* variant: the constructor keeps the accumulators of the engine it replaces
CumulativeTFR_ctor_keep(a) ==
    /\ tfrGen' = tfrGen + 1
    /\ tfrAlpha' = a
    /\ spectrumBuffer' = [c \in Chans |-> [f \in Freqs |-> [t \in Times |-> <<0, 0>>]]]
    /\ powBuffer' =
          IF tfrGen = 0
          THEN [c \in Chans |-> [f \in Freqs |-> [t \in Times |->
                   [sum |-> ZeroReal, count |-> 0, alpha |-> a]]]]
          ELSE powBuffer
    /\ pxys' =
          IF tfrGen = 0
          THEN [p \in Combs |-> [f \in Freqs |-> [t \in Times |->
                   [sum |-> ZeroComplex, count |-> 0, alpha |-> a]]]]
          ELSE pxys
    /\ trials' = [add |-> [c \in Chans |-> 0], coh |-> [p \in Combs |-> 0]]
    /\ heap' = {}
    /\ UNCHANGED timing

\* CumulativeTFR::CumulativeTFR: pxys, spectrumBuffer and powBuffer are built
\* with value-initialised entries and accumulators ComplexWeightedAccum(alpha),
\* RealWeightedAccum(alpha)
CumulativeTFR_ctor(a) ==
    /\ tfrGen' = tfrGen + 1
    /\ tfrAlpha' = a
    /\ spectrumBuffer' = [c \in Chans |-> [f \in Freqs |-> [t \in Times |-> <<0, 0>>]]]
    /\ powBuffer' = [c \in Chans |-> [f \in Freqs |-> [t \in Times |->
                        [sum |-> ZeroReal, count |-> 0, alpha |-> a]]]]
    /\ pxys' = [p \in Combs |-> [f \in Freqs |-> [t \in Times |->
                   [sum |-> ZeroComplex, count |-> 0, alpha |-> a]]]]
    /\ trials' = [add |-> [c \in Chans |-> 0], coh |-> [p \in Combs |-> 0]]
    /\ heap' = {}
    /\ UNCHANGED timing

\* variant: addTrial leaves the last time bin as it was
addTrial_short(seg, chanIt) ==
    /\ spectrumBuffer' = [spectrumBuffer EXCEPT ![chanIt] =
          [f \in Freqs |-> [t \in Times |->
              IF t < nTimes THEN extract(seg, f, t) ELSE @[f][t]]]]
    /\ powBuffer' = [powBuffer EXCEPT ![chanIt] =
          [f \in Freqs |-> [t \in Times |->
              IF t < nTimes
              THEN RealWeightedAccum_add(@[f][t], norm(extract(seg, f, t)))
              ELSE @[f][t]]]]
    /\ trials' = [trials EXCEPT !.add[chanIt] = @ + 1]
    /\ UNCHANGED <<tfrGen, tfrAlpha, pxys, heap, timing>>

\* CumulativeTFR::addTrial(fftBuffer, chanIt): for every freq and t,
\* spectrumBuffer[chanIt][freq][t] = complex;
\* powBuffer[chanIt][freq][t].addValue(std::norm(complex))
addTrial(seg, chanIt) ==
    /\ spectrumBuffer' = [spectrumBuffer EXCEPT ![chanIt] =
          [f \in Freqs |-> [t \in Times |-> extract(seg, f, t)]]]
    /\ powBuffer' = [powBuffer EXCEPT ![chanIt] =
          [f \in Freqs |-> [t \in Times |->
              RealWeightedAccum_add(@[f][t], norm(extract(seg, f, t)))]]]
    /\ trials' = [trials EXCEPT !.add[chanIt] = @ + 1]
    /\ UNCHANGED <<tfrGen, tfrAlpha, pxys, heap, timing>>

\* the cross-spectrum accumulators of comb after the first loop of
\* getMeanCoherence: pxys[comb][f][t].addValue(crss)
getMeanCoherence_pxys(comb) ==
    [f \in Freqs |-> [t \in Times |->
        ComplexWeightedAccum_add(pxys[comb][f][t],
            crss(spectrumBuffer[itX(comb)][f][t], spectrumBuffer[itY(comb)][f][t]))]]

\* meanDest[f] of the second loop, from the accumulators pxy of comb
getMeanCoherence_meanDest(comb, pxy, f) ==
    RealAccum_getAverage([t \in Times |->
        singleCoherence(
            RealWeightedAccum_getAverage(powBuffer[itX(comb)][f][t].sum,
                                         powBuffer[itX(comb)][f][t].count),
            RealWeightedAccum_getAverage(powBuffer[itY(comb)][f][t].sum,
                                         powBuffer[itY(comb)][f][t].count),
            ComplexWeightedAccum_getAverage(pxy[f][t].sum, pxy[f][t].count))])

\* the containers a call constructs, each with storage from the heap
NoteHeap(made) == heap' = IF observe = "heap" THEN heap \cup made ELSE heap

\* variant: the means are left in a local vector, meanDest is not written
getMeanCoherence_local(comb) ==
    /\ pxys' = [pxys EXCEPT ![comb] = getMeanCoherence_pxys(comb)]
    /\ trials' = [trials EXCEPT !.coh[comb] = @ + 1]
    /\ NoteHeap({"stdDest"})
    /\ UNCHANGED <<res, tfrGen, tfrAlpha, spectrumBuffer, powBuffer, timing>>

\* CumulativeTFR::getMeanCoherence(itX, itY, meanDest, comb), with meanDest
\* the row comb of the instance coherenceWriter names; each entry written is
\* stamped with the analysis cycle; std::vector<double> stdDest(nFreqs) is
\* constructed between the two loops
getMeanCoherence(comb) ==
    LET pxy == getMeanCoherence_pxys(comb)
    IN  /\ pxys' = [pxys EXCEPT ![comb] = pxy]
        /\ res' = [res EXCEPT ![resW][comb] =
              [f \in Freqs |->
                  [val |-> getMeanCoherence_meanDest(comb, pxy, f),
                   cycle |-> cycle]]]
        /\ trials' = [trials EXCEPT !.coh[comb] = @ + 1]
        /\ NoteHeap({"stdDest"})
        /\ UNCHANGED <<tfrGen, tfrAlpha, spectrumBuffer, powBuffer, timing>>

\* CumulativeTFR::getPowerForChannels: PwrIndFreqAvg[chn][frq], the average
\* over the time bins of powBuffer[chn][frq][pr].getAverage(); Totalpower and
\* PwrIndFreqAvg are constructed by the call
getPowerForChannels ==
    [c \in Chans |-> [f \in Freqs |->
        RealAccum_getAverage([t \in Times |->
            RealWeightedAccum_getAverage(powBuffer[c][f][t].sum,
                                         powBuffer[c][f][t].count)])]]

\* CoherenceNode(): winLen(2), stepLen(0.1); no engine exists
TimingInit ==
    /\ windowLen = 2
    /\ stepLen = [num |-> 1, den |-> 10]
    /\ trimTime = -1
    /\ tIndex = <<>>

\* the window lengths and step lengths the editor's labels may set
WindowLens == 1..segLen
StepLens == {[num |-> 1, den |-> d] : d \in 1..MaxStepDen}

\* resetTFR: nTimes = ((segLen * Fs) - nSamplesWin) / Fs * (1 / stepLen) + 1,
\* converted to int
resetTFR_nTimes ==
    (((segLen * Fs) - (windowLen * Fs)) * stepLen.den) \div (Fs * stepLen.num) + 1

\* CumulativeTFR::CumulativeTFR: trimTime = windowLen / 2, a float converted
\* to the int member trimTime
CumulativeTFR_trimTime ==
    /\ trimTime = -1
    /\ trimTime' = windowLen \div 2
    /\ UNCHANGED <<windowLen, stepLen, tIndex>>
    /\ UNCHANGED <<ready, nodeAlpha, WhatisIT, tfrGen, tfrAlpha, spectrumBuffer,
                   powBuffer, pxys, trials, heap, results, run, shouldExit, cycle, fed, activeInputs,
                   acqVars, mapper>>
    /\ nodeFrame

\* addTrial: int tIndex = int(((t * stepLen) + trimTime) * Fs), for the next
\* t of the loop over t < nTimes
addTrial_tIndex ==
    /\ trimTime >= 0
    /\ Len(tIndex) < resetTFR_nTimes
    /\ LET t == Len(tIndex)
       IN  tIndex' = Append(tIndex,
               ((t * stepLen.num + trimTime * stepLen.den) * Fs) \div stepLen.den)
    /\ UNCHANGED <<windowLen, stepLen, trimTime>>
    /\ UNCHANGED <<ready, nodeAlpha, WhatisIT, tfrGen, tfrAlpha, spectrumBuffer,
                   powBuffer, pxys, trials, heap, results, run, shouldExit, cycle, fed, activeInputs,
                   acqVars, mapper>>
    /\ nodeFrame

\* the engine constructed with alpha a, as resetTFR() does after
\* updateAlpha(a)
TFR_new(a) ==
    /\ tfrGen < MaxEngines
    /\ rt = "none"
    /\ CumulativeTFR_ctor(a)
    /\ nodeAlpha' = a
    /\ UNCHANGED <<ready, WhatisIT, results, run, shouldExit, cycle, fed, activeInputs, acqVars, mapper>>
    /\ nodeFrame

\* the engine's calls, made with any segment for any channel or pair
TFR_addTrial(seg, chanIt) ==
    /\ tfrGen > 0
    /\ rt = "none"
    /\ trials.add[chanIt] < MaxTrials
    /\ addTrial(seg, chanIt)
    /\ UNCHANGED <<ready, nodeAlpha, WhatisIT, results, run, shouldExit, cycle, fed, activeInputs,
                   acqVars, mapper>>
    /\ nodeFrame

TFR_getMeanCoherence(comb) ==
    /\ tfrGen > 0
    /\ rt = "none"
    /\ trials.coh[comb] < MaxTrials
    /\ getMeanCoherence(comb)
    /\ UNCHANGED <<ready, nodeAlpha, WhatisIT, resW, resOk, ttlpwr, cohW, run,
                   shouldExit, cycle, fed, activeInputs, acqVars, mapper>>
    /\ nodeFrame

TFR_getPowerForChannels ==
    /\ tfrGen > 0
    /\ rt = "none"
    /\ ttlpwr' = getPowerForChannels
    /\ NoteHeap({"Totalpower", "PwrIndFreqAvg"})
    /\ UNCHANGED <<ready, nodeAlpha, WhatisIT, tfrGen, tfrAlpha, spectrumBuffer,
                   powBuffer, pxys, trials, timing, res, resW, resOk, cohW,
                   run, shouldExit, cycle, fed, activeInputs, acqVars, mapper>>
    /\ nodeFrame

\* a position of run(): the statement it is at and, in a loop, the index
At(at) == [at |-> at, i |-> 0]

\* CoherenceNode(): alpha(0), ready(false), WhatisIT(1); TFR is a null
\* ScopedPointer; the instances of meanCoherence are empty vectors, which
\* updateMeanCoherenceSize() gives nGroupCombs rows of nFreqs zeros; no thread
\* runs
NodeInit ==
    /\ ready = FALSE
    /\ nodeAlpha = 0
    /\ WhatisIT = 1
    /\ tfrGen = 0
    /\ tfrAlpha = 0
    /\ spectrumBuffer = <<>>
    /\ powBuffer = <<>>
    /\ pxys = <<>>
    /\ trials = [add |-> [c \in Chans |-> 0], coh |-> [p \in Combs |-> 0]]
    /\ heap = {}
    /\ res = [i \in Slots |-> [p \in Combs |-> [f \in Freqs |->
                 [val |-> ZeroReal, cycle |-> 0]]]]
    /\ resW = 2
    /\ resOk = TRUE
    /\ ttlpwr = <<>>
    /\ cohW = FALSE
    /\ run = At("off")
    /\ shouldExit = FALSE
    /\ cycle = 0
    /\ fed = 0

\* ------------------------------------------------- CoherenceNode::process
\* process() runs on the acquisition thread with write handle 1: it constructs
\* dataWriter (ScopedWriteIndex_ctor), runs the loop over the channels
\* (process_body), pushes when the segment is full (the steps of pushWrite,
\* then process_pushed), and destroys dataWriter on return.
SegSamples == segLen * Fs

\* where an artifact is found: channel and sample, or nowhere
None == <<0, 0>>
Artifacts == {None} \cup ((1..NumChans) \X (0..(MaxSamples - 1)))

\* values an int that was never assigned may hold
Indeterminate == (0 - SegSamples)..1

\* variant: the samples of a callback are taken as they come
process_overflow_none(nSamples) == nSamples

\* if (nSamplesAdded + nSamples >= segLen * Fs) nSamples = segLen * Fs - nSamplesAdded
process_overflow(nSamples) ==
    IF nSamplesAdded + nSamples >= SegSamples
    THEN SegSamples - nSamplesAdded
    ELSE nSamples

\* if (nSamplesAdded >= segLen * Fs)
process_full(added) == added >= SegSamples

\* the samples that have come since the last call of discardCurBuffer: none
\* when this call discards, n more otherwise; Fs stands for Fs or more, and
\* for no discard so far
NoteWait(n, discards) ==
    sinceDiscard' = IF observe # "wait" THEN sinceDiscard
                    ELSE IF discards THEN 0
                    ELSE IF sinceDiscard + n >= Fs THEN Fs
                    ELSE sinceDiscard + n

\* the highest position set by a callback that stores m samples for each
\* channel up to the artifact at art: dataWriter->getReference(groupIt).set(
\* nSamplesAdded + n, rpIn[n]) for n below m, or below the artifact's sample
\* in its channel
process_set(m, art) ==
    IF art = None \/ art[1] > 1 THEN nSamplesAdded + m - 1
    ELSE IF art[2] > 0 THEN nSamplesAdded + art[2] - 1
    ELSE 0 - 1

NoteSet(top) == lastSet' = IF observe = "wait" THEN top ELSE lastSet

processFrame ==
    UNCHANGED <<indices, counters, wh, rh, lockout, assertFailed, pushes,
                observe, handlePushes, pullFloor, wOps, rOps, fresh, ptrs, releasedSlot,
                access, mapper, accum, node>>

\* the loop over the active channels, each with n samples, and the test that
\* follows it; art is where the loop finds an artifact
process_body(n, art) ==
    /\ callback = "enter"
    /\ wh[1] = "idle"
    /\ art # None => numArtifacts < MaxArtifacts
    /\ IF n = 0
       THEN \* every channel: if (nSamples == 0) continue
            /\ art = None
            /\ callback' = IF process_full(nSamplesAdded) THEN "push" ELSE "exit"
            /\ pushedWritten' = IF process_full(nSamplesAdded)
                                THEN written ELSE pushedWritten
            /\ UNCHANGED <<nSamplesAdded, nSamplesWait, nSamplesWaited,
                           numArtifacts, written, data>>
       ELSE IF nSamplesWaited < nSamplesWait
       THEN \* the first channel waits: its samples are only compared, then
            \* nSamplesWaited += nSamples; break; the loop is left with nSamples = n
            LET hit == art # None /\ art[1] = 1 /\ art[2] < n
                added == (IF hit THEN 0 ELSE nSamplesAdded) + n
            IN  /\ art # None => hit
                /\ IF hit
                   THEN \* discardCurBuffer(nSamplesWaited + n); break
                        /\ numArtifacts' = numArtifacts + nSamplesWaited + art[2]
                        /\ nSamplesWait' = 0 - Fs
                        /\ nSamplesWaited' = 0 + n
                        /\ written' = 0
                   ELSE /\ nSamplesWaited' = nSamplesWaited + n
                        /\ UNCHANGED <<numArtifacts, nSamplesWait, written>>
                /\ nSamplesAdded' = added
                /\ callback' = IF process_full(added) THEN "push" ELSE "exit"
                /\ pushedWritten' = IF process_full(added)
                                    THEN written' ELSE pushedWritten
                /\ UNCHANGED data
       ELSE \* every channel sets its samples in the writer's instance, up to
            \* the first artifact
            LET m == process_overflow(n)
                hit == art # None /\ art[2] < m
                added == nSamplesAdded + m
            IN  /\ art # None => hit
                /\ data' = IF hit /\ art = <<1, 0>>
                           THEN data
                           ELSE [data EXCEPT ![writerIndex].content = pushCount + 1]
                /\ IF hit
                   THEN \* discardCurBuffer(nSamplesAdded + n); return
                        /\ numArtifacts' = numArtifacts + nSamplesAdded + art[2]
                        /\ nSamplesWait' = 0 - Fs
                        /\ nSamplesAdded' = 0
                        /\ nSamplesWaited' = 0
                        /\ written' = 0
                        /\ callback' = "exit"
                        /\ UNCHANGED pushedWritten
                   ELSE /\ written' = written + m
                        /\ nSamplesAdded' = added
                        /\ callback' = IF process_full(added) THEN "push" ELSE "exit"
                        /\ pushedWritten' = IF process_full(added)
                                            THEN written' ELSE pushedWritten
                        /\ UNCHANGED <<numArtifacts, nSamplesWait, nSamplesWaited>>
    /\ NoteWait(n, art # None)
    /\ NoteSet(IF n = 0 \/ nSamplesWaited < nSamplesWait THEN 0 - 1
               ELSE process_set(process_overflow(n), art))
    /\ UNCHANGED numTrials
    /\ processFrame

\* after dataWriter.pushUpdate() has returned: nSamplesAdded = 0; numTrials++
process_pushed ==
    /\ callback = "push"
    /\ wh[1] = "idle"
    /\ pushCount = numTrials + 1
    /\ nSamplesAdded' = 0
    /\ numTrials' = numTrials + 1
    /\ written' = 0
    /\ callback' = "exit"
    /\ UNCHANGED <<nSamplesWait, nSamplesWaited, numArtifacts, pushedWritten, sinceDiscard, lastSet, data>>
    /\ processFrame

\* process() has returned and dataWriter is destroyed; the next call may begin
process_return ==
    /\ callback = "exit"
    /\ wh[1] = "none"
    /\ callback' = "enter"
    /\ UNCHANGED <<nSamplesAdded, nSamplesWait, nSamplesWaited, numTrials,
                   numArtifacts, written, pushedWritten, sinceDiscard, lastSet, data>>
    /\ processFrame

\* CoherenceNode(): nSamplesWait(0); updateSettings(): nSamplesAdded = 0;
\* enable(): numTrials = 0, numArtifacts = 0; nSamplesWaited is not assigned
\* before process() reads it
AcqInit ==
    /\ nSamplesAdded = 0
    /\ nSamplesWait = 0
    /\ nSamplesWaited \in Indeterminate
    /\ numTrials = 0
    /\ numArtifacts = 0
    /\ callback = "enter"
    /\ written = 0
    /\ pushedWritten = 0
    /\ sinceDiscard = Fs
    /\ lastSet = 0 - 1

\* ------------------------------------ CoherenceNode: run() and resetTFR()
\* run() is the analysis thread, with read handle 1 of dataBuffer as
\* dataReader; process() is the acquisition thread, with write handle 1;
\* enable(), disable(), updateAlpha() and resetTFR() are called by the
\* message thread, one after the other.  The synchronizer of meanCoherence
\* is not modelled step by step: coherenceWriter is its only writer, a push
\* gives it one of the other two instances, and meanCoherence.map() is one
\* step.
MapStep ==
    \/ map_checkoutReader
    \/ map_checkoutWriter
    \/ map_apply
    \/ map_returnReader
    \/ map_returnWriter

\* the steps of updateReaderIndex
pullUpdate(h) ==
    \/ updateReaderIndex_load(h)
    \/ updateReaderIndex_park(h)
    \/ updateReaderIndex_park2(h)
    \/ updateReaderIndex_take(h)

\* enable(): numTrials = 0; numArtifacts = 0; startThread(COH_PRIORITY), which
\* clears the flag and starts run(); made when the thread of an earlier
\* acquisition has ended and the node is ready
enable ==
    /\ run.at = "off"
    /\ rt = "none"
    /\ ready
    /\ tfrGen > 0
    /\ numTrials' = 0
    /\ numArtifacts' = 0
    /\ shouldExit' = FALSE
    /\ run' = At("start")
    /\ UNCHANGED <<nSamplesAdded, nSamplesWait, nSamplesWaited, callback, written,
                   pushedWritten, sinceDiscard, lastSet, ready, nodeAlpha, WhatisIT, engine, results,
                   cycle, fed, activeInputs, mapper>>
    /\ nodeFrame

\* disable(): signalThreadShouldExit(); it does not wait for run()
disable ==
    /\ run.at # "off"
    /\ ~shouldExit
    /\ shouldExit' = TRUE
    /\ UNCHANGED <<acqVars, ready, nodeAlpha, WhatisIT, engine, results, run,
                   cycle, fed, activeInputs, mapper>>
    /\ nodeFrame

\* the controls of the visualizer work while no acquisition is active: before
\* enable() or after disable()
controlsEnabled == run.at = "off" \/ shouldExit

\* updateAlpha(a); updateReady(false)
updateAlpha(a) ==
    /\ controlsEnabled
    /\ rt = "none"
    /\ nodeAlpha' = a
    /\ ready' = FALSE
    /\ UNCHANGED <<acqVars, WhatisIT, engine, results, run, shouldExit, cycle, fed, activeInputs,
                   mapper>>
    /\ nodeFrame

\* resetTFR(): ready = true; nSamplesAdded = 0; then updateDataBufferSize()
\* calls dataBuffer.map() (the steps of map)
resetTFR_begin ==
    /\ controlsEnabled
    /\ rt = "none"
    /\ mp = "none"
    /\ tfrGen < MaxEngines
    /\ ready' = TRUE
    /\ nSamplesAdded' = 0
    /\ rt' = "data"
    /\ UNCHANGED <<nSamplesWait, nSamplesWaited, numTrials, numArtifacts, callback,
                   written, pushedWritten, sinceDiscard, lastSet, nodeAlpha, WhatisIT, engine, results,
                   run, shouldExit, cycle, fed, activeInputs, mp, mapHasReadLock, mapHasWriteLock,
                   mapValid, mapResult, mapSawReader, mapSawWriter>>
    /\ nodeFrame

\* numArtifacts = 0; nFreqs = ...; updateMeanCoherenceSize() calls
\* meanCoherence.map(), whose lockout is valid when coherenceWriter is not
\* registered; resize() keeps the entries of a vector whose size stays
resetTFR_results ==
    /\ rt = "results"
    /\ numArtifacts' = 0
    /\ resOk' = ~cohW
    /\ rt' = "engine"
    /\ UNCHANGED <<nSamplesAdded, nSamplesWait, nSamplesWaited, numTrials, callback,
                   written, pushedWritten, sinceDiscard, lastSet, ready, nodeAlpha, WhatisIT, engine,
                   res, resW, ttlpwr, cohW, run, shouldExit, cycle, fed, activeInputs, mp,
                   mapHasReadLock, mapHasWriteLock, mapValid, mapResult,
                   mapSawReader, mapSawWriter>>
    /\ nodeFrame

\* nTimes = ...; TFR = new CumulativeTFR(..., alpha), whatever map() returned
resetTFR_engine ==
    /\ rt = "engine"
    /\ rt' = "none"
    /\ CumulativeTFR_ctor(nodeAlpha)
    /\ UNCHANGED <<acqVars, ready, nodeAlpha, WhatisIT, results, run, shouldExit,
                   cycle, fed, activeInputs, mp, mapHasReadLock, mapHasWriteLock, mapValid,
                   mapResult, mapSawReader, mapSawWriter>>
    /\ nodeFrame

\* buttonClicked(SpectrogramViewer / CoherenceViewer): processor->WhatisIT = m,
\* then processor->resetTFR()
buttonClicked_mode(m) ==
    /\ controlsEnabled
    /\ rt = "none"
    /\ mp = "none"
    /\ tfrGen < MaxEngines
    /\ WhatisIT # m
    /\ WhatisIT' = m
    /\ ready' = TRUE
    /\ nSamplesAdded' = 0
    /\ rt' = "data"
    /\ UNCHANGED <<nSamplesWait, nSamplesWaited, numTrials, numArtifacts, callback,
                   written, pushedWritten, sinceDiscard, lastSet, nodeAlpha, engine, results,
                   run, shouldExit, cycle, fed, activeInputs, mp, mapHasReadLock, mapHasWriteLock,
                   mapValid, mapResult, mapSawReader, mapSawWriter>>
    /\ nodeFrame

resetTFR ==
    \/ resetTFR_begin
    \/ rt = "data" /\ MapStep
    \/ resetTFR_results
    \/ resetTFR_engine

\* run(): AtomicScopedReadPtr dataReader(dataBuffer), with the
\* updateReaderIndex of its constructor
run_dataReader ==
    /\ run.at = "start"
    /\ \/ ScopedReadIndex_ctor(1)
       \/ rh[1] \in {"ctor"} \cup InPull /\ pullUpdate(1)

\* AtomicScopedWritePtr coherenceWriter(meanCoherence)
run_coherenceWriter ==
    /\ run.at = "start"
    /\ rh[1] \in {"idle", "invalid"}
    /\ cohW' = TRUE
    /\ run' = At("top")
    /\ UNCHANGED <<acqVars, ready, nodeAlpha, WhatisIT, engine, res, resW, resOk,
                   ttlpwr, shouldExit, cycle, fed, activeInputs, mapper>>
    /\ nodeFrame

\* variant: the flag is also looked at after hasUpdate()
run_hasUpdate_exit ==
    /\ run.at = "poll"
    /\ sawUpdate' = IF hasUpdate THEN pushCount ELSE 0
    /\ run' = IF shouldExit THEN At("exit")
              ELSE IF hasUpdate THEN At("pull") ELSE At("top")
    /\ cycle' = IF hasUpdate /\ ~shouldExit THEN cycle + 1 ELSE cycle
    /\ UNCHANGED <<acqVars, ready, nodeAlpha, WhatisIT, engine, results,
                   shouldExit, fed, activeInputs, mapper>>
    /\ UNCHANGED <<indices, counters, wh, rh, lockout, assertFailed, pushes,
                   observe, handlePushes, pullFloor, wOps, rOps, fresh, data,
                   readPtrValid, wasInvalid, releasedSlot, access, accum>>

\* while (!threadShouldExit())
run_threadShouldExit ==
    /\ run.at = "top"
    /\ run' = IF shouldExit THEN At("exit") ELSE At("poll")
    /\ UNCHANGED <<acqVars, ready, nodeAlpha, WhatisIT, engine, results,
                   shouldExit, cycle, fed, activeInputs, mapper>>
    /\ nodeFrame

\* if (dataBuffer.hasUpdate()): an analysis cycle begins
run_hasUpdate ==
    /\ run.at = "poll"
    /\ sawUpdate' = IF hasUpdate THEN pushCount ELSE 0
    /\ run' = IF hasUpdate THEN At("pull") ELSE At("top")
    /\ cycle' = IF hasUpdate THEN cycle + 1 ELSE cycle
    /\ UNCHANGED <<acqVars, ready, nodeAlpha, WhatisIT, engine, results,
                   shouldExit, fed, activeInputs, mapper>>
    /\ UNCHANGED <<indices, counters, wh, rh, lockout, assertFailed, pushes,
                   observe, handlePushes, pullFloor, wOps, rOps, fresh, data,
                   readPtrValid, wasInvalid, releasedSlot, access, accum>>

\* dataReader.pullUpdate(), which does nothing on a handle not registered
run_pullUpdate ==
    /\ run.at = "pull"
    /\ \/ rh[1] = "idle" /\ sawUpdate > 0
       \/ rh[1] \in InPull
    /\ pullUpdate(1)

\* for (activeChan < nActiveInputs): the position of run() after its turn
\* for channel i (0: before the first); the loop takes the active channels in
\* rising order, and after the last the coherence mode goes on to the pairs,
\* the spectrogram mode to getPowerForChannels
run_nextChannel(i) ==
    LET later == {c \in activeInputs : c > i} IN
    IF later # {}
    THEN [at |-> "addTrial", i |-> CHOOSE c \in later : \A d \in later : c <= d]
    ELSE IF WhatisIT = 1 THEN [at |-> "coherence", i |-> 1]
    ELSE At("power")

\* the channel of the engine that gets the trial of the active channel chan:
\* groupIt in coherence mode, activeChan (the place in activeInputs) in
\* spectrogram mode
run_chanIt(chan) ==
    IF WhatisIT = 1 THEN chan
    ELSE Cardinality({c \in activeInputs : c <= chan})

\* the pull has returned; the loop over the active channels begins
run_pulled ==
    /\ run.at = "pull"
    /\ \/ rh[1] = "idle" /\ sawUpdate = 0
       \/ rh[1] = "invalid"
    /\ run' = run_nextChannel(0)
    /\ fed' = PushOf(ScopedReadIndex_int(1))
    /\ UNCHANGED <<acqVars, ready, nodeAlpha, WhatisIT, engine, results,
                   shouldExit, cycle, activeInputs, mapper>>
    /\ nodeFrame

\* TFR->addTrial(dataReader->getReference(groupIt), groupIt) for the next
\* active channel; operator-> aborts when dataReader is not valid; after the
\* last channel the coherence mode goes on to the pairs, the spectrogram mode
\* to getPowerForChannels
run_addTrial ==
    /\ run.at = "addTrial"
    /\ IF ~ScopedReadPtr_isValid(1)
       THEN /\ aborted' = TRUE
            /\ UNCHANGED <<run, engine>>
       ELSE /\ addTrial(data[ScopedReadIndex_int(1)].content, run_chanIt(run.i))
            /\ run' = run_nextChannel(run.i)
            /\ UNCHANGED aborted
    /\ UNCHANGED <<acqVars, ready, nodeAlpha, WhatisIT, results, shouldExit,
                   cycle, fed, activeInputs, mapper, outOfRange>>
    /\ UNCHANGED <<indices, counters, wh, rh, lockout, assertFailed, pushes,
                   observe, handlePushes, pullFloor, wOps, rOps, fresh, data, ptrs,
                   releasedSlot, accum>>

\* TFR->getMeanCoherence(itX, itY + nGroup1Chans, coherenceWriter->at(comb).data(), comb)
\* for the next pair
run_getMeanCoherence ==
    /\ run.at = "coherence"
    /\ getMeanCoherence(run.i)
    /\ run' = IF run.i < NumChans - 1 THEN [run EXCEPT !.i = @ + 1]
              ELSE At("push")
    /\ UNCHANGED <<acqVars, ready, nodeAlpha, WhatisIT, resW, resOk, ttlpwr, cohW,
                   shouldExit, cycle, fed, activeInputs, mapper>>
    /\ nodeFrame

\* ttlpwr = TFR->getPowerForChannels()
run_getPowerForChannels ==
    /\ run.at = "power"
    /\ ttlpwr' = getPowerForChannels
    /\ NoteHeap({"Totalpower", "PwrIndFreqAvg"})
    /\ run' = At("push")
    /\ UNCHANGED <<acqVars, ready, nodeAlpha, WhatisIT, tfrGen, tfrAlpha,
                   spectrumBuffer, powBuffer, pxys, trials, timing, res, resW,
                   resOk,
                   cohW, shouldExit, cycle, fed, activeInputs, mapper>>
    /\ nodeFrame

\* coherenceWriter.pushUpdate(): the writer goes on with another instance
run_pushUpdate ==
    /\ run.at = "push"
    /\ \E i \in Slots \ {resW} : resW' = i
    /\ run' = At("top")
    /\ UNCHANGED <<acqVars, ready, nodeAlpha, WhatisIT, engine, res, resOk,
                   ttlpwr, cohW, shouldExit, cycle, fed, activeInputs, mapper>>
    /\ nodeFrame

\* run() returns: ~coherenceWriter, then ~dataReader
run_exit ==
    /\ run.at = "exit"
    /\ cohW' = FALSE
    /\ run' = At("return")
    /\ UNCHANGED <<acqVars, ready, nodeAlpha, WhatisIT, engine, res, resW, resOk,
                   ttlpwr, shouldExit, cycle, fed, activeInputs, mapper>>
    /\ nodeFrame

run_return ==
    \/ run.at = "return" /\ rh[1] # "none" /\ ScopedReadIndex_dtor(1)
    \/ /\ run.at = "return"
       /\ rh[1] = "none"
       /\ run' = At("off")
       /\ UNCHANGED <<acqVars, ready, nodeAlpha, WhatisIT, engine, results,
                      shouldExit, cycle, fed, activeInputs, mapper>>
       /\ nodeFrame

RunStep ==
    \/ run_dataReader
    \/ run_coherenceWriter
    \/ run_threadShouldExit
    \/ run_hasUpdate
    \/ run_pullUpdate
    \/ run_pulled
    \/ run_addTrial
    \/ run_getMeanCoherence
    \/ run_getPowerForChannels
    \/ run_pushUpdate
    \/ run_exit
    \/ run_return

\* ------------------------------------------------------------ specification
\* AtomicSynchronizer(): nReaders(0), nWriters(0), reset(); AtomicallyShared():
\* three instances; no handle and no lockout exists
SharedInit ==
    /\ readyToReadIndex = Empty
    /\ readyToWriteIndex = 0
    /\ readyToWriteIndex2 = 1
    /\ writerIndex = 2
    /\ readerIndex = Empty
    /\ nWriters = 0
    /\ nReaders = 0
    /\ wh = [h \in WriteHandles |-> "none"]
    /\ rh = [h \in ReadHandles |-> "none"]
    /\ lk = "none"
    /\ hasReadLock = FALSE
    /\ hasWriteLock = FALSE
    /\ valid = FALSE
    /\ resetResult = TRUE
    /\ assertFailed = FALSE
    /\ pushCount = 0
    /\ slotPush = [i \in Slots |-> 0]
    /\ lkSawReader = FALSE
    /\ lkSawWriter = FALSE
    /\ pullFloor = 0
    /\ wOps = <<>>
    /\ rOps = <<>>
    /\ recent = "other"
    /\ pushedSlot = Empty
    /\ handlePushes = [h \in WriteHandles |-> 0]
    /\ data = [i \in Slots |-> [content |-> 0, size |-> 0]]
    /\ readPtrValid = [h \in ReadHandles |-> FALSE]
    /\ sawUpdate = 0
    /\ wasInvalid = {}
    /\ releasedSlot = Empty
    /\ aborted = FALSE
    /\ outOfRange = FALSE
    /\ mp = "none"
    /\ mapHasReadLock = FALSE
    /\ mapHasWriteLock = FALSE
    /\ mapValid = FALSE
    /\ mapResult = TRUE
    /\ mapSawReader = FALSE
    /\ mapSawWriter = FALSE
    /\ rt = "none"
    /\ NodeInit

\* the synchronizer and its data, beside accumulators and an acquisition that
\* take no step
InitState ==
    /\ SharedInit
    /\ activeInputs = Chans
    /\ TimingInit
    /\ AccumInit
    /\ alpha = 0
    /\ AcqInit
    /\ nSamplesWaited = 0

Init == InitState /\ observe = "none"

WriterStep(h) ==
    \/ ScopedWriteIndex_ctor(h)
    \/ ScopedWriteIndex_dtor(h)
    \/ pushWrite_swap(h)
    \/ pushWrite_claim1(h)
    \/ pushWrite_claim2(h)

ReaderStep(h) ==
    \/ ScopedReadIndex_ctor(h)
    \/ ScopedReadIndex_dtor(h)
    \/ updateReaderIndex_load(h)
    \/ updateReaderIndex_park(h)
    \/ updateReaderIndex_park2(h)
    \/ updateReaderIndex_take(h)

ResetStep ==
    \/ reset_checkoutReader
    \/ reset_checkoutWriter
    \/ reset_assign
    \/ reset_returnReader
    \/ reset_returnWriter

Next ==
    \/ \E h \in WriteHandles : WriterStep(h)
    \/ \E h \in ReadHandles : ReaderStep(h)
    \/ ResetStep

Spec == Init /\ [][Next]_vars

\* the synchronizer with the data it guards: the handles are dereferenced and
\* the writer stores through its handle; nothing runs after std::abort()
NextShared ==
    /\ ~aborted
    /\ \/ \E h \in WriteHandles : WriterStep(h)
       \/ \E h \in ReadHandles : ReaderStep(h)
       \/ \E h \in WriteHandles : ScopedWritePtr_deref(h)
       \/ \E h \in ReadHandles : ScopedReadPtr_deref(h)

SpecShared == Init /\ [][NextShared]_vars

\* the writer's rounds of storing and pushing, counted for each handle, beside
\* one read handle
NextRounds ==
    /\ ~aborted
    /\ \/ \E h \in WriteHandles : WriterStep(h)
       \/ ReaderStep(1)
       \/ \E h \in WriteHandles : ScopedWritePtr_deref(h)

InitRounds == InitState /\ observe = "rounds"
SpecRounds == InitRounds /\ [][NextRounds]_vars

\* the synchronizer with the data it guards: map() runs beside the handles
NextMap ==
    \/ \E h \in WriteHandles : WriterStep(h)
    \/ \E h \in ReadHandles : ReaderStep(h)
    \/ MapStep

SpecMap == Init /\ [][NextMap]_vars

\* the reader and the writer alone, the reader calling hasUpdate()
NextUpdate ==
    \/ \E h \in WriteHandles : WriterStep(h)
    \/ \E h \in ReadHandles : ReaderStep(h)
    \/ hasUpdate_call

SpecUpdate == Init /\ [][NextUpdate]_vars

\* the accumulators of CumulativeTFR, constructed with any alpha
InitAccum ==
    /\ SharedInit
    /\ activeInputs = Chans
    /\ TimingInit
    /\ observe = "none"
    /\ AccumInit
    /\ alpha \in Alphas
    /\ AcqInit
    /\ nSamplesWaited = 0

NextAccum ==
    \/ \E x \in Values : RealWeightedAccum_addValue(x)
    \/ \E z \in ComplexValues : ComplexWeightedAccum_addValue(z)

SpecAccum == InitAccum /\ [][NextAccum]_vars

\* the engine alone: constructed with any alpha, then given trials
NextTFR ==
    \/ \E a \in Alphas : TFR_new(a)
    \/ \E seg \in Segments, c \in Chans : TFR_addTrial(seg, c)
    \/ \E p \in Combs : TFR_getMeanCoherence(p)
    \/ TFR_getPowerForChannels

SpecTFR == Init /\ [][NextTFR]_vars

\* process() on the acquisition thread, beside the reader of run()
InitProcess ==
    /\ SharedInit
    /\ activeInputs = Chans
    /\ TimingInit
    /\ observe = "none"
    /\ AccumInit
    /\ alpha = 0
    /\ AcqInit

NextProcess ==
    \/ callback = "enter" /\ ScopedWriteIndex_ctor(1)
    \/ \E n \in 0..MaxSamples, art \in Artifacts : process_body(n, art)
    \/ /\ callback = "push"
       /\ wh[1] \in InPush \/ pushCount = numTrials
       /\ \/ pushWrite_swap(1)
          \/ pushWrite_claim1(1)
          \/ pushWrite_claim2(1)
    \/ process_pushed
    \/ callback = "exit" /\ ScopedWriteIndex_dtor(1)
    \/ process_return
    \/ ReaderStep(1)

SpecProcess == InitProcess /\ [][NextProcess]_vars

\* process() again, recording the samples that follow a discarded segment
\* and the positions each callback sets
InitWait ==
    /\ SharedInit
    /\ activeInputs = Chans
    /\ TimingInit
    /\ observe = "wait"
    /\ AccumInit
    /\ alpha = 0
    /\ AcqInit

SpecWait == InitWait /\ [][NextProcess]_vars

\* the same engine, recording the containers its calls construct
InitHeap == InitState /\ observe = "heap"
SpecHeap == InitHeap /\ [][NextTFR]_vars

\* the time indices of addTrial, for any window length and step length
InitIndex ==
    /\ SharedInit
    /\ activeInputs = Chans
    /\ observe = "none"
    /\ AccumInit
    /\ alpha = 0
    /\ AcqInit
    /\ nSamplesWaited = 0
    /\ windowLen \in WindowLens
    /\ stepLen \in StepLens
    /\ trimTime = -1
    /\ tIndex = <<>>

NextIndex ==
    \/ CumulativeTFR_trimTime
    \/ addTrial_tIndex

SpecIndex == InitIndex /\ [][NextIndex]_vars

\* the engine reset: alpha is set, resetTFR() constructs the engine, and the
\* engine is given trials of a segment that is not silent
NextReset ==
    \/ \E a \in Alphas : updateAlpha(a)
    \/ resetTFR
    \/ \E c \in Chans : TFR_addTrial(MaxValue, c)
    \/ \E p \in Combs : TFR_getMeanCoherence(p)

SpecReset == Init /\ [][NextReset]_vars

\* the node reconfigured beside run(): the message thread enables, disables
\* and reconfigures the node while run() polls a dataBuffer that gets no
\* segment
NextReconf ==
    \/ enable
    \/ disable
    \/ \E m \in {0, 1} : buttonClicked_mode(m)
    \/ resetTFR
    \/ run_dataReader
    \/ run_coherenceWriter
    \/ run_threadShouldExit
    \/ run_hasUpdate
    \/ run_exit
    \/ run_return

SpecReconf == Init /\ [][NextReconf]_vars

\* the node in acquisition: process() stores and pushes segments, run()
\* analyses them, and the node is reconfigured when run() has returned;
\* nothing runs after std::abort()
NextRun ==
    /\ ~aborted
    /\ \/ enable
       \/ disable
       \/ run.at = "off" /\ \E m \in {0, 1} : buttonClicked_mode(m)
       \/ run.at = "off" /\ resetTFR
       \/ RunStep
       \/ /\ wh[1] # "none" \/ (run.at # "off" /\ ~shouldExit)
          /\ WriterStep(1) \/ ScopedWritePtr_deref(1)

SpecRun == Init /\ [][NextRun]_vars

\* run() in coherence mode beside the acquisition thread, for any set of
\* active channels among those of the two groups; the acquisition goes on
InitActive ==
    /\ SharedInit
    /\ activeInputs \in SUBSET Chans
    /\ TimingInit
    /\ AccumInit
    /\ alpha = 0
    /\ AcqInit
    /\ nSamplesWaited = 0
    /\ observe = "none"

NextActive ==
    /\ ~aborted
    /\ \/ enable
       \/ run.at = "off" /\ resetTFR
       \/ run_dataReader
       \/ run_coherenceWriter
       \/ run_threadShouldExit
       \/ run_hasUpdate
       \/ run_pullUpdate
       \/ run_pulled
       \/ run_addTrial
       \/ run_getMeanCoherence
       \/ run_pushUpdate
       \/ /\ run.at # "off"
          /\ WriterStep(1) \/ ScopedWritePtr_deref(1)

SpecActive == InitActive /\ [][NextActive]_vars

\* run() is the body of the analysis thread (CoherenceNode.cpp 147-225): the
\* scheduler runs the thread again and again, so each step of the loop is
\* taken once it stays possible: weak fairness of each step.  The step that
\* calls getMeanCoherence is possible exactly while run() is at that call, and
\* its fairness is written out as that: either run() leaves the call infinitely
\* often or the step is taken infinitely often.  The acquisition side has no
\* fairness: process() is called only while data arrives.
run_fair ==
    /\ WF_vars(run_dataReader \/ run_coherenceWriter)
    /\ WF_vars(run_threadShouldExit)
    /\ WF_vars(run_hasUpdate)
    /\ WF_vars(run_pullUpdate \/ run_pulled)
    /\ WF_vars(run_addTrial)
    /\ WF_vars(run_pushUpdate)
    /\ ([]<>(run.at # "coherence") \/ []<><<run_getMeanCoherence>>_vars)

\* The analysis loop beside the acquisition side, with no exit signal, under
\* the fairness of the thread.
SpecLive == InitActive /\ [][NextActive]_vars /\ run_fair

\* the same program, recording the slot a released write handle had
InitRelease == InitState /\ observe = "release"
SpecRelease == InitRelease /\ [][Next]_vars

\* the same program, recording the completed pushes at the start of each pull
InitOrder == InitState /\ observe = "order"
SpecOrder == InitOrder /\ [][Next]_vars

\* the same program, recording the atomic operations of each call
InitOps == InitState /\ observe = "ops"
SpecOps == InitOps /\ [][Next]_vars

\* the same program, recording a push followed at once by a pull
InitFresh == InitState /\ observe = "fresh"
SpecFresh == InitFresh /\ [][Next]_vars

TypeOK ==
    /\ \A k \in 1..5 : indices[k] \in Slots \cup {Empty}
    /\ wh \in [WriteHandles -> WritePositions]
    /\ rh \in [ReadHandles -> ReadPositions]
    /\ lk \in LockPositions
    /\ pushCount \in 0..MaxPushes

\* ------------------------------------------------------------------ claims
\* the variables among the five that hold slot i
HeldBy(i) == {k \in 1..5 : indices[k] = i}

\* every slot is held by exactly one of the five index variables
Population == \A i \in Slots : Cardinality(HeldBy(i)) = 1

\* no call of pushWrite or updateReaderIndex is in progress
Quiescent ==
    /\ \A h \in WriteHandles : wh[h] \notin InPush
    /\ \A h \in ReadHandles : rh[h] \notin InPull

\* C1: after any sequence of completed pushes and pulls (and resets), the
\* non-empty values of the five index variables are 0, 1 and 2, each held by
\* exactly one variable
C1_PopulationAfterCompletedOps == Quiescent => Population

C1_Witness ==
    /\ Quiescent
    /\ pushCount >= 2
    /\ readerIndex # Empty
    /\ readyToReadIndex # Empty
    /\ writerIndex # Empty

\* C2 as stated: in every state, also midway through a push or a pull, every
\* slot is held by exactly one of the five index variables
C2_PopulationAtEveryInstant == Population

\* the reader has parked readerIndex in a landing slot and has not yet taken
\* readyToReadIndex
Parked == readerIndex # Empty /\ \E h \in ReadHandles : rh[h] = "take"

\* the variables other than readerIndex that hold slot i
HeldByOthers(i) == {k \in 1..4 : indices[k] = i}

\* C2 amended: in every state the non-empty values of the five variables are
\* exactly 0, 1, 2; each is held by exactly one variable, except that from the
\* reader's parking of its index until its take of readyToReadIndex the parked
\* index is held by readerIndex and by exactly one other variable
C2_PopulationExceptParked ==
    /\ \A k \in 1..5 : indices[k] \in Slots \cup {Empty}
    /\ \A i \in Slots : HeldBy(i) # {}
    /\ IF Parked
       THEN /\ \A i \in Slots : Cardinality(HeldByOthers(i)) = 1
            /\ Cardinality(HeldBy(readerIndex)) = 2
       ELSE Population

C2_Witness ==
    /\ Parked
    /\ readerIndex = writerIndex

\* the reader may be using the instance readerIndex names: it holds an index
\* and has not parked it
ReaderReading == readerIndex # Empty /\ ~Parked

\* C3: while the reader may be using its instance, the writer's index is a
\* different one; so no step of the writer adopts the slot the reader reads
C3_ReaderWriterDisjoint == ReaderReading => readerIndex # writerIndex

C3_Witness ==
    /\ ReaderReading
    /\ writerIndex # Empty
    /\ pushCount >= 2
    /\ \E h \in ReadHandles : rh[h] = "idle"
    /\ \E h \in WriteHandles : wh[h] = "idle"

\* C4: neither assert of pushWrite fails: outside pushWrite writerIndex holds a
\* slot, and a writer that found readyToReadIndex empty finds a slot in
\* readyToWriteIndex or readyToWriteIndex2
C4_PushNeverLeavesWriterEmpty ==
    /\ ~assertFailed
    /\ (\A h \in WriteHandles : wh[h] \notin InPush) => writerIndex # Empty
    /\ \A h \in WriteHandles :
         /\ wh[h] = "claim1" =>
               (readyToWriteIndex # Empty \/ readyToWriteIndex2 # Empty)
         /\ wh[h] = "claim2" => readyToWriteIndex2 # Empty

C4_Witness ==
    /\ \E h \in WriteHandles : wh[h] = "claim2"
    /\ \E h \in ReadHandles : rh[h] \in InPull

\* C5 (SpecFresh): a push from slot w followed at once by a pull leaves the reader
\* holding w and the writer holding another slot
C5_Freshness ==
    recent = "pushPull" =>
        /\ pushedSlot # Empty
        /\ readerIndex = pushedSlot
        /\ writerIndex \in Slots \ {pushedSlot}

C5_Witness ==
    /\ recent = "pushPull"
    /\ readerIndex = pushedSlot
    /\ readyToReadIndex = Empty
    /\ pushCount >= 2

\* C6 (SpecOrder): once updateReaderIndex has returned, the reader holds the slot
\* of a push numbered at least the number of pushes that had completed when the
\* call began
C6_PullSeesLatest ==
    (\A h \in ReadHandles : rh[h] \notin InPull) =>
        PushOf(readerIndex) >= pullFloor

\* a pull that began after push 2 had completed ended with the slot of push 3,
\* and push 1 was never read
C6_Witness ==
    /\ \A h \in ReadHandles : rh[h] \notin InPull
    /\ pullFloor = 2
    /\ PushOf(readerIndex) = 3

\* C7: nWriters and nReaders are 0 or 1 and count the registrations held; a
\* handle constructed while the registration of its role is held is invalid,
\* and one constructed while it is free is valid
C7_Counters ==
    /\ nWriters \in {0, 1}
    /\ nReaders \in {0, 1}
    /\ WriterRegistrations = nWriters
    /\ ReaderRegistrations = nReaders

C7_Attempts ==
    /\ \A h \in WriteHandles :
         (wh[h] = "none" /\ wh'[h] # "none") =>
            (wh'[h] = "invalid") = (WriterRegistrations > 0)
    /\ \A h \in ReadHandles :
         (rh[h] = "none" /\ rh'[h] # "none") =>
            (rh'[h] = "invalid") = (ReaderRegistrations > 0)
    /\ (lk = "none" /\ lk' = "ctorW") => hasReadLock' = (ReaderRegistrations = 0)
    /\ (lk = "ctorW" /\ lk' # "ctorW") => hasWriteLock' = (WriterRegistrations = 0)

C7_AtMostOneRegistration == []C7_Counters /\ [][C7_Attempts]_vars

\* a second write handle was refused while the first is held, and a read
\* handle was granted after an earlier one was released
C7_Witness ==
    /\ wh[1] = "idle"
    /\ wh[2] = "invalid"
    /\ rh[1] = "none"
    /\ rh[2] = "idle"
    /\ readerIndex # Empty

\* the number of operations of kind k in ops
Count(ops, k) == Cardinality({n \in 1..Len(ops) : ops[n] = k})

\* C8 (SpecOps): a pushWrite makes at most 3 exchanges; an updateReaderIndex at
\* most one load, one compare-exchange and two exchanges; and the next step of
\* a registration, of a push and of a pull can be taken whatever the other
\* threads' positions are
C8_WaitFree ==
    /\ Len(wOps) <= 3
    /\ Count(wOps, "xchg") = Len(wOps)
    /\ Count(rOps, "load") <= 1
    /\ Count(rOps, "cas") <= 1
    /\ Count(rOps, "xchg") <= 2
    /\ Len(rOps) <= 4
    /\ \A h \in WriteHandles :
         /\ wh[h] = "none" => ENABLED ScopedWriteIndex_ctor(h)
         /\ (wh[h] = "idle" /\ pushCount < MaxPushes) => ENABLED pushWrite_swap(h)
         /\ wh[h] = "claim1" => ENABLED pushWrite_claim1(h)
         /\ wh[h] = "claim2" => ENABLED pushWrite_claim2(h)
    /\ \A h \in ReadHandles :
         /\ rh[h] = "none" => ENABLED ScopedReadIndex_ctor(h)
         /\ rh[h] \in {"ctor", "idle"} => ENABLED updateReaderIndex_load(h)
         /\ rh[h] = "park" => ENABLED updateReaderIndex_park(h)
         /\ rh[h] = "park2" => ENABLED updateReaderIndex_park2(h)
         /\ rh[h] = "take" => ENABLED updateReaderIndex_take(h)

\* the longest pull (load, failed compare-exchange, two exchanges) has run to
\* completion beside a push that needed a fallback exchange
C8_Witness ==
    /\ rOps = <<"load", "cas", "xchg", "xchg">>
    /\ Len(wOps) >= 2
    /\ \E h \in ReadHandles : rh[h] = "idle"

\* the lockout of reset() is constructed, valid and not yet being destroyed
LockoutHeld == valid /\ lk \in {"locked", "dtorR"}

\* C9: the lockout is valid exactly when no read handle existed as it tried the
\* reader registration and no write handle existed as it tried the writer
\* registration; while a valid lockout is held no read or write handle is
\* valid, and every handle constructed is invalid
C9_LockoutState ==
    /\ lk \in {"locked", "dtorR", "dtorW"} =>
          (valid = (~lkSawReader /\ ~lkSawWriter))
    /\ LockoutHeld => (ValidReaders = {} /\ ValidWriters = {})

C9_LockoutAttempts ==
    LockoutHeld =>
        /\ \A h \in WriteHandles : wh[h] = "none" => wh'[h] \in {"none", "invalid"}
        /\ \A h \in ReadHandles : rh[h] = "none" => rh'[h] \in {"none", "invalid"}

C9_LockoutExcludes == []C9_LockoutState /\ [][C9_LockoutAttempts]_vars

\* under a valid lockout a write handle and a read handle were refused
C9_Witness ==
    /\ lk = "locked"
    /\ valid
    /\ \E h \in WriteHandles : wh[h] = "invalid"
    /\ \E h \in ReadHandles : rh[h] = "invalid"

\* the state reset() establishes
Pristine == indices = <<Empty, 0, 1, 2, Empty>>

\* C10: reset() assigns only when no read or write handle existed as it
\* registered, then leaves the pristine state, in which hasUpdate() is false
\* and readerIndex stays empty until the next push, and returns true;
\* otherwise no step of it changes an index variable and it returns false
C10_ResetState ==
    /\ lk = "locked" => (~lkSawReader /\ ~lkSawWriter)
    /\ (valid /\ lk \in {"dtorR", "dtorW"}) => Pristine
    /\ pushCount = 0 => (~hasUpdate /\ readerIndex = Empty)

C10_ResetSteps ==
    /\ (lk' # lk /\ lk # "locked") => UNCHANGED indices
    /\ (lk = "dtorW" /\ lk' = "none") =>
          /\ resetResult' = (~lkSawReader /\ ~lkSawWriter)
          /\ resetResult' = valid

C10_Reset == []C10_ResetState /\ [][C10_ResetSteps]_vars

\* a reset() that has assigned under a valid lockout, after one that failed
C10_Witness ==
    /\ lk = "dtorR"
    /\ valid
    /\ ~resetResult
    /\ Pristine

\* a call of hasUpdate() has returned true and no call of updateReaderIndex
\* has ended since
UpdateSeen == sawUpdate > 0

\* C11 (SpecUpdate): hasUpdate() returns true only when readyToReadIndex holds
\* a slot; from then on readyToReadIndex holds a slot, whatever the writer
\* pushes, until the reader takes it; the next updateReaderIndex, of a
\* constructor or of pullUpdate, finds it and ends with a valid read handle
C11_State == UpdateSeen => (hasUpdate /\ sawUpdate <= pushCount)

C11_Steps ==
    /\ (hasUpdate /\ readyToReadIndex' = Empty) =>
          \E h \in ReadHandles : rh[h] = "take" /\ rh'[h] = "idle"
    /\ \A h \in ReadHandles :
          (UpdateSeen /\ rh[h] \in {"ctor", "idle"} /\ rh'[h] # rh[h]) =>
              rh'[h] \in {"park", "take", "none"}
    /\ (UpdateSeen /\ sawUpdate' = 0) =>
          \E h \in ReadHandles :
              /\ rh[h] = "take"
              /\ rh'[h] = "idle"
              /\ ScopedReadPtr_isValid(h)'
              /\ readerIndex' # Empty

C11_UpdateStaysUntilPulled == []C11_State /\ [][C11_Steps]_vars

\* hasUpdate() returned true after the first push, the writer has replaced the
\* value twice since, and a read handle constructed afterwards is taking it
C11_Witness ==
    /\ sawUpdate = 1
    /\ pushCount = 3
    /\ PushOf(readyToReadIndex) = 3
    /\ readerIndex = Empty
    /\ \E h \in ReadHandles : rh[h] = "take"

\* slot i is the one the last push published
JustPushed(i) == pushCount > 0 /\ slotPush[i] = pushCount

\* C12 (SpecRounds): a write handle stays valid and registered through its
\* calls of pushUpdate, only its destructor ends it; after each pushUpdate it
\* names a slot other than the one that push published
C12_State ==
    \A h \in WriteHandles :
        /\ ScopedWritePtr_isValid(h) => nWriters = 1
        /\ (wh[h] = "idle" /\ handlePushes[h] > 0) =>
              /\ ScopedWriteIndex_int(h) \in Slots
              /\ ~JustPushed(ScopedWriteIndex_int(h))
              /\ \E i \in Slots : JustPushed(i)

C12_Steps ==
    \A h \in WriteHandles :
        /\ (ScopedWritePtr_isValid(h) /\ ~ScopedWritePtr_isValid(h)') =>
              (wh[h] = "idle" /\ wh'[h] = "none" /\ pushCount' = pushCount)
        /\ handlePushes'[h] > handlePushes[h] =>
              (ScopedWritePtr_isValid(h)' /\ nWriters' = 1)

C12_PushKeepsRegistration == []C12_State /\ [][C12_Steps]_vars

\* one write handle has stored and pushed three times, and a second handle
\* constructed meanwhile was refused
C12_Witness ==
    \E h \in WriteHandles :
        /\ wh[h] = "idle"
        /\ handlePushes[h] = 3
        /\ \A i \in Slots : data[i].content > 0
        /\ \E g \in WriteHandles : wh[g] = "invalid"

\* C13 (SpecRelease): writerIndex changes only in a step of pushWrite (or in the
\* assignments of reset()); so a write handle constructed after a valid one
\* was destroyed, with no push and no reset between, names the slot the
\* destroyed one named, whatever the reader has done
C13_State ==
    releasedSlot # Empty =>
        /\ writerIndex = releasedSlot
        /\ \A h \in WriteHandles :
              ScopedWritePtr_isValid(h) => ScopedWriteIndex_int(h) = releasedSlot

C13_Steps ==
    writerIndex' # writerIndex =>
        \/ \E h \in WriteHandles :
              \/ wh[h] = "idle" /\ pushCount' = pushCount + 1
              \/ wh[h] \in InPush
        \/ lk = "locked"

C13_SlotKeptAcrossRelease == []C13_State /\ [][C13_Steps]_vars

\* a write handle that pushed was destroyed, another was constructed after
\* it, and the reader is in the middle of a pull
C13_Witness ==
    /\ releasedSlot # Empty
    /\ pushCount >= 2
    /\ \E h \in WriteHandles : wh[h] = "idle"
    /\ \E h \in ReadHandles : rh[h] = "take"
    /\ readerIndex # Empty

\* C14 (SpecOrder): while no push has begun since construction or the last
\* reset, a read handle whose constructor has returned is registered but not
\* valid, and readerIndex is empty; a handle constructed so is valid once a
\* call of pullUpdate that began after a completed push has returned
C14_ReadHandleBeforeFirstPush ==
    \A h \in ReadHandles :
        /\ (rh[h] = "idle" /\ pushCount = 0) =>
              /\ nReaders = 1
              /\ ~ScopedReadPtr_isValid(h)
              /\ ScopedReadIndex_int(h) = Empty
              /\ readerIndex = Empty
        /\ (h \in wasInvalid /\ rh[h] = "idle" /\ pullFloor >= 1) =>
              /\ ScopedReadPtr_isValid(h)
              /\ ScopedReadIndex_int(h) \in Slots

\* a read handle constructed before the first push has pulled after it and is
\* valid
C14_Witness ==
    \E h \in ReadHandles :
        /\ h \in wasInvalid
        /\ rh[h] = "idle"
        /\ pullFloor >= 1
        /\ ScopedReadPtr_isValid(h)
        /\ readerIndex \in Slots

\* C15 (SpecShared): operator* on a handle that is not valid aborts the
\* process and touches no instance; operator* on a valid handle indexes data
\* with a slot, never with -1; the process aborts for no other reason
C15_State ==
    /\ ~outOfRange
    /\ \A h \in WriteHandles :
          (wh[h] = "idle" /\ ScopedWritePtr_isValid(h)) =>
              ScopedWriteIndex_int(h) \in Slots
    /\ \A h \in ReadHandles :
          (rh[h] = "idle" /\ ScopedReadPtr_isValid(h)) =>
              ScopedReadIndex_int(h) \in Slots

C15_Steps ==
    /\ \A h \in WriteHandles :
          (ScopedWritePtr_deref(h) /\ ~ScopedWritePtr_isValid(h)) =>
              (aborted' /\ UNCHANGED <<data, outOfRange, indices>>)
    /\ \A h \in ReadHandles :
          (ScopedReadPtr_deref(h) /\ ~ScopedReadPtr_isValid(h)) =>
              (aborted' /\ UNCHANGED <<data, outOfRange, indices>>)
    /\ (aborted' /\ ~aborted) =>
          \/ \E h \in WriteHandles :
                wh[h] \in {"idle", "invalid"} /\ ~ScopedWritePtr_isValid(h)
          \/ \E h \in ReadHandles :
                rh[h] \in {"idle", "invalid"} /\ ~ScopedReadPtr_isValid(h)

C15_InvalidDereferenceAborts == []C15_State /\ [][C15_Steps]_vars

\* the writer has stored through a valid handle, and then the dereference of
\* a read handle that is registered but not valid has aborted the process
C15_Witness ==
    /\ aborted
    /\ \E i \in Slots : data[i].content > 0
    /\ \E h \in ReadHandles : rh[h] = "idle" /\ ~ScopedReadPtr_isValid(h)
    /\ \A h \in WriteHandles : wh[h] # "invalid"

\* C16 (SpecMap): map() applies the function to all three instances and
\* returns true when no read or write handle was registered as it registered;
\* otherwise it returns false and applies it to none; no step of map()
\* changes an index variable, and only the loop of a valid map() changes an
\* instance
C16_State ==
    /\ mp \in {"locked", "dtorR", "dtorW"} =>
          mapValid = (~mapSawReader /\ ~mapSawWriter)
    /\ mp = "locked" => (mapValid /\ ValidWriters = {} /\ ValidReaders = {})

C16_Steps ==
    /\ mp' # mp => UNCHANGED indices
    /\ (mp = "ctorW" /\ mp' # mp) => ((mp' = "locked") = mapValid')
    /\ (mp \in {"locked", "dtorR"} /\ mp' # mp) => UNCHANGED mapValid
    /\ (mp = "locked" /\ mp' # mp) =>
          \E newSize \in Sizes :
              \A i \in Slots : data'[i] = resize(data[i], newSize)
    /\ data' # data => (mp = "locked" /\ mp' = "dtorR")
    /\ (mp = "dtorW" /\ mp' = "none") =>
          /\ mapResult' = mapValid
          /\ mapResult' = (~mapSawReader /\ ~mapSawWriter)

C16_Map == []C16_State /\ [][C16_Steps]_vars

\* a map() resized every instance and returned true, and a later one found a
\* handle registered and is about to return false with the instances as they
\* were
C16_Witness ==
    /\ mp = "dtorW"
    /\ ~mapValid
    /\ mapResult
    /\ \A i \in Slots : data[i].size = MaxSize

\* C17 (SpecShared): the buffer holds three instances at all times; no step
\* of a handle's constructor, pushUpdate, pullUpdate or destructor changes an
\* instance, they move index variables only; an instance changes only when
\* the writer stores through its valid handle, and then it is the one
\* writerIndex names
C17_State ==
    /\ DOMAIN data = Slots
    /\ Cardinality(DOMAIN data) = 3
    /\ \A i \in Slots : data[i] \in Instances

C17_Steps ==
    /\ (wh' # wh \/ rh' # rh \/ indices' # indices \/ pushes' # pushes
          \/ ptrs' # ptrs) => data' = data
    /\ data' # data =>
          /\ \E h \in WriteHandles : wh[h] = "idle"
          /\ \A i \in Slots : i # writerIndex => data'[i] = data[i]

C17_PushPullMoveIndicesOnly == []C17_State /\ [][C17_Steps]_vars

\* the reader holds the instance of the last push with what the writer stored
\* in it, while the other two instances hold what was stored in them
C17_Witness ==
    /\ pushCount = MaxPushes
    /\ readerIndex \in Slots
    /\ PushOf(readerIndex) = MaxPushes
    /\ data[readerIndex].content = MaxPushes
    /\ \A i \in Slots : data[i].content > 0
    /\ \A i, j \in Slots : i # j => data[i].content # data[j].content

\* x1 + ... + xN of the values given to addValue
RECURSIVE Total(_)
Total(seq) == IF seq = <<>> THEN 0 ELSE Head(seq) + Total(Tail(seq))

\* the sequence of the k-th components of a sequence of pairs
Component(seq, k) == [i \in 1..Len(seq) |-> seq[i][k]]

\* C18 (SpecAccum): with alpha = 0, after N >= 1 calls of addValue
\* getAverage() is (x1 + ... + xN) / N, for the real and for the complex
\* accumulator; before any call it is zero
C18_PlainMean ==
    alpha = 0 =>
        LET r == RealWeightedAccum_getAverage(rSum, rCount)
            c == ComplexWeightedAccum_getAverage(cSum, cCount)
        IN  /\ r.den > 0
            /\ c.den > 0
            /\ xs = <<>> => r.num = 0
            /\ xs # <<>> => r.num * Len(xs) = Total(xs) * r.den
            /\ zs = <<>> => (c.re = 0 /\ c.im = 0)
            /\ zs # <<>> =>
                  /\ c.re * Len(zs) = Total(Component(zs, 1)) * c.den
                  /\ c.im * Len(zs) = Total(Component(zs, 2)) * c.den

\* with alpha = 0 two reals of mean 1/2 and a complex value were added
C18_Witness ==
    /\ alpha = 0
    /\ Len(xs) = 2
    /\ Total(xs) = 1
    /\ Len(zs) = 1
    /\ zs[1] = <<1, 0 - 1>>
    /\ rCount = 2

\* AlphaDen^(n-1) times 1 + (1 - alpha) + ... + (1 - alpha)^(n-1), the count
\* after n calls when nothing is truncated
RECURSIVE RealCount(_, _)
RealCount(a, n) ==
    IF n = 0 THEN 0
    ELSE IF n = 1 THEN 1
    ELSE Pow(AlphaDen, n - 1) + (AlphaDen - a) * RealCount(a, n - 1)

\* C19 (SpecAccum), as the claim states it: for every alpha in [0, 1] the
\* count after n calls of addValue is 1 + (1 - alpha) + ... + (1 - alpha)^(n-1),
\* a real number of which nothing is dropped, and getAverage() divides the
\* sum by it
C19_CountIsReal ==
    /\ xs # <<>> =>
          rCount * Pow(AlphaDen, Len(xs) - 1) = RealCount(alpha, Len(xs))
    /\ zs # <<>> =>
          cCount * Pow(AlphaDen, Len(zs) - 1) = RealCount(alpha, Len(zs))

\* C20 (SpecProcess), as the claim states it: process() pushes exactly when
\* the samples stored since the last push or discard reach segLen * Fs; on
\* that call pushUpdate() runs once, nSamplesAdded returns to 0 and numTrials
\* grows by one; a segment with fewer samples stored, or one an artifact
\* discarded, is not pushed
C20_State ==
    /\ callback = "push" =>
          /\ nSamplesAdded = SegSamples
          /\ written = SegSamples
          /\ pushCount \in {numTrials, numTrials + 1}
    /\ callback # "push" =>
          /\ nSamplesAdded < SegSamples
          /\ pushCount = numTrials

C20_Steps ==
    /\ (callback = "push" /\ callback' # callback) =>
          /\ pushCount = numTrials + 1
          /\ nSamplesAdded' = 0
          /\ numTrials' = numTrials + 1
    /\ (numTrials' # numTrials \/ pushCount' # pushCount) => callback = "push"

C20_PushWhenSegmentFull == []C20_State /\ [][C20_Steps]_vars

\* C21 (SpecProcess), as the claim states it: no step of process(), of
\* discardCurBuffer() or of the handles it uses lowers numTrials or
\* numArtifacts (numArtifacts is counted here in samples, segLen * Fs of them
\* to a segment)
C21_CountersNeverLowered ==
    [][numTrials' >= numTrials /\ numArtifacts' >= numArtifacts]_vars

\* C22: resetTFR() reconfigures only under a successful exclusive lockout: it
\* replaces the engine only when both dataBuffer.map() and
\* meanCoherence.map() of the call returned true, so never while run() holds
\* dataReader or coherenceWriter
C22_EngineReplacedUnderLockout ==
    [][tfrGen' # tfrGen => mapResult /\ resOk /\ ~cohW /\ rh[1] \notin ReadValid]_vars

\* the statements run() still has to pass before it returns when the flag is
\* set: the rest of the iteration in progress, then the exit
RunBase ==
    CASE run.at = "off" -> 0
      [] run.at = "return" -> 1
      [] run.at = "exit" -> 2
      [] run.at = "top" -> 3
      [] run.at = "push" -> 4
      [] run.at = "power" -> 5
      [] run.at = "coherence" -> 5 + NumChans - run.i
      [] run.at = "addTrial" -> 5 + 2 * NumChans - run.i
      [] run.at = "pull" -> 5 + 2 * NumChans
      [] run.at \in {"poll", "start"} -> 6 + 2 * NumChans

\* the steps updateReaderIndex, the constructor or the destructor of
\* dataReader still has to make at that statement
RunSub ==
    CASE run.at = "return" -> IF rh[1] = "none" THEN 0 ELSE 1
      [] run.at \in {"start", "pull"} ->
            CASE rh[1] = "none" -> 7
              [] rh[1] = "ctor" -> 6
              [] rh[1] = "idle" /\ run.at = "pull" /\ sawUpdate > 0 -> 6
              [] rh[1] = "park" -> 5
              [] rh[1] = "park2" -> 4
              [] rh[1] = "take" -> 3
              [] OTHER -> 1
      [] OTHER -> 0

RunRank == 8 * RunBase + RunSub

\* when run() is not running it holds neither dataReader nor coherenceWriter
C23_State == run.at = "off" => rh[1] = "none" /\ ~cohW

\* run() goes to its exit only from the top of the loop, there exactly when
\* the flag is set, and with the flag set every step of run() brings it
\* nearer to its return
C23_Steps ==
    /\ run'.at = "exit" /\ run.at # "exit" => run.at = "top" /\ shouldExit
    /\ run.at = "top" /\ run' # run => run'.at = (IF shouldExit THEN "exit" ELSE "poll")
    /\ shouldExit /\ RunStep => RunRank' < RunRank

\* C23: run() looks at the should-exit flag at the top of every iteration of
\* its loop and nowhere else; once the flag is set it finishes at most the
\* iteration in progress, starts no other, and returns, which releases
\* dataReader and coherenceWriter
C23_ExitAtTopOnly == []C23_State /\ [][C23_Steps]_vars

\* run() has returned after the flag was set, with segments analysed
C23_Witness ==
    /\ shouldExit
    /\ run.at = "off"
    /\ cycle > 0
    /\ rh[1] = "none"
    /\ ~cohW

\* C24: the calls made for every segment (addTrial, getMeanCoherence,
\* getPowerForChannels) construct no container: the engine's buffers are sized
\* by its constructor and only mutated in place afterwards
C24_NoAllocation == heap = {}

\* a reader whose compare-exchange on readyToWriteIndex has failed and whose
\* exchange on readyToWriteIndex2 is to come
C25_State == \A h \in ReadHandles : rh[h] = "park2" => readyToWriteIndex2 = Empty

\* a step of a pull that stores into readyToWriteIndex or readyToWriteIndex2
\* stores the reader's index where no index was
C25_Steps ==
    \A h \in ReadHandles :
        rh[h] \in {"park", "park2"} /\ rh'[h] = "take" =>
            /\ readyToWriteIndex' # readyToWriteIndex => readyToWriteIndex = Empty
            /\ readyToWriteIndex2' # readyToWriteIndex2 => readyToWriteIndex2 = Empty
            /\ readerIndex \in {readyToWriteIndex', readyToWriteIndex2'}

\* C25: in pullUpdate, when the compare-exchange of the reader's index into
\* readyToWriteIndex fails because that slot is occupied, readyToWriteIndex2 is
\* empty at the exchange that follows, under every interleaving with the
\* writer, so the exchange never overwrites an index
C25_SecondLandingEmpty == []C25_State /\ [][C25_Steps]_vars

\* the reader's compare-exchange has failed and the writer has since claimed
\* the index that made it fail
C25_Witness ==
    /\ \E h \in ReadHandles : rh[h] = "park2"
    /\ readyToWriteIndex = Empty
    /\ readyToWriteIndex2 = Empty

\* every entry of the instance coherenceWriter names was written in the
\* analysis cycle that is running
Rebuilt == \A p \in Combs, f \in Freqs : res[resW][p][f].cycle = cycle

\* C26 as stated: at each coherenceWriter.pushUpdate() every entry of the
\* pushed instance of meanCoherence was written in the analysis cycle that
\* pushes it, in coherence mode and in spectrogram mode
C26_PushedRebuilt == [][run.at = "push" /\ run'.at = "top" => Rebuilt]_vars

\* C26 amended: in coherence mode every entry of the instance pushed by
\* coherenceWriter.pushUpdate() was written in the analysis cycle that pushes
\* it; in spectrogram mode the cycle writes ttlpwr and leaves the pushed
\* instance as it was
C26_PushedRebuiltInCoherenceMode ==
    [][run.at = "push" /\ run'.at = "top" =>
          IF WhatisIT = 1 THEN Rebuilt ELSE res' = res /\ ~Rebuilt]_vars

\* a second cycle in coherence mode is about to push a rebuilt instance,
\* beside an instance that holds the entries of the cycle before
C26_Witness ==
    /\ run.at = "push"
    /\ WhatisIT = 1
    /\ cycle > 1
    /\ Rebuilt
    /\ \E i \in Slots \ {resW} : \A p \in Combs, f \in Freqs :
          res[i][p][f].cycle = cycle - 1

\* the step is a call of addTrial for channel c
AddTrialStep(c) == tfrGen' = tfrGen /\ trials'.add[c] = trials.add[c] + 1

\* the step is a call of getMeanCoherence for pair p
MeanCoherenceStep(p) == tfrGen' = tfrGen /\ trials'.coh[p] = trials.coh[p] + 1

\* addTrial for channel c: every spectrum entry of c comes from the one
\* segment given, every power accumulator of c gets one value, the power of
\* its new spectrum entry, and nothing else of the engine changes
C27_AddTrial(c) ==
    /\ \E seg \in Segments : \A f \in Freqs, t \in Times :
          spectrumBuffer'[c][f][t] = extract(seg, f, t)
    /\ \A f \in Freqs, t \in Times :
          powBuffer'[c][f][t] =
              RealWeightedAccum_add(powBuffer[c][f][t], norm(spectrumBuffer'[c][f][t]))
    /\ \A d \in Chans \ {c} :
          spectrumBuffer'[d] = spectrumBuffer[d] /\ powBuffer'[d] = powBuffer[d]
    /\ pxys' = pxys

\* getMeanCoherence for pair p: every cross-spectrum accumulator of p gets
\* one value, the cross spectrum of the two channels' entries, and no other
\* accumulator and no spectrum entry changes
C27_GetMeanCoherence(p) ==
    /\ \A f \in Freqs, t \in Times :
          pxys'[p][f][t] =
              ComplexWeightedAccum_add(pxys[p][f][t],
                  crss(spectrumBuffer[itX(p)][f][t], spectrumBuffer[itY(p)][f][t]))
    /\ \A q \in Combs \ {p} : pxys'[q] = pxys[q]
    /\ powBuffer' = powBuffer
    /\ spectrumBuffer' = spectrumBuffer

\* C27: addTrial(segment, c) writes every nFreqs x nTimes spectrum entry of
\* channel c and adds exactly one value to each power accumulator of c,
\* leaving the other channels and all cross-spectrum accumulators as they
\* were; getMeanCoherence for pair p adds exactly one value to each
\* cross-spectrum accumulator of p and changes no power accumulator
C27_FrameOfTrial ==
    [][/\ \A c \in Chans : AddTrialStep(c) => C27_AddTrial(c)
       /\ \A p \in Combs : MeanCoherenceStep(p) => C27_GetMeanCoherence(p)]_vars

\* every channel has had two trials of different segments and the pair two
\* calls of getMeanCoherence, with power and cross spectrum accumulated
C27_Witness ==
    /\ tfrGen > 0
    /\ \A c \in Chans : trials.add[c] = MaxTrials
    /\ \A p \in Combs : trials.coh[p] = MaxTrials
    /\ \A c \in Chans, f \in Freqs, t \in Times : powBuffer[c][f][t].sum.num > 0
    /\ \E p \in Combs, f \in Freqs, t \in Times : pxys[p][f][t].sum.re > 0

\* the accumulators of the engine: those of powBuffer and those of pxys
PowAccums == {<<c, f, t>> : c \in Chans, f \in Freqs, t \in Times}
PxyAccums == {<<p, f, t>> : p \in Combs, f \in Freqs, t \in Times}

\* every accumulator is as its constructor leaves it, with alpha a
FreshAccums(a) ==
    /\ \A k \in PowAccums :
          powBuffer[k[1]][k[2]][k[3]] = [sum |-> ZeroReal, count |-> 0, alpha |-> a]
    /\ \A k \in PxyAccums :
          pxys[k[1]][k[2]][k[3]] = [sum |-> ZeroComplex, count |-> 0, alpha |-> a]

\* while the node is ready and resetTFR() is not running, the engine and each
\* of its accumulators use the alpha that is configured
C28_State ==
    ready /\ rt = "none" =>
        /\ tfrGen > 0
        /\ tfrAlpha = nodeAlpha
        /\ \A k \in PowAccums : powBuffer[k[1]][k[2]][k[3]].alpha = nodeAlpha
        /\ \A k \in PxyAccums : pxys[k[1]][k[2]][k[3]].alpha = nodeAlpha

\* the step that ends resetTFR() leaves every accumulator fresh; a call on
\* the engine leaves the alpha of every accumulator, lowers no count, and
\* leaves an accumulator without values only if it had none
C28_Steps ==
    /\ rt = "engine" /\ rt' = "none" => ready' /\ FreshAccums(nodeAlpha)'
    /\ tfrGen' = tfrGen /\ tfrGen > 0 =>
          /\ \A k \in PowAccums :
                LET old == powBuffer[k[1]][k[2]][k[3]]
                    new == powBuffer'[k[1]][k[2]][k[3]]
                IN  /\ new.alpha = old.alpha
                    /\ new.count >= old.count
                    /\ new.count = 0 => new = old
          /\ \A k \in PxyAccums :
                LET old == pxys[k[1]][k[2]][k[3]]
                    new == pxys'[k[1]][k[2]][k[3]]
                IN  /\ new.alpha = old.alpha
                    /\ new.count >= old.count
                    /\ new.count = 0 => new = old

\* C28: when resetTFR() has left the node ready, every power and
\* cross-spectrum accumulator has sum 0 and count 0 and uses the alpha that
\* is configured; no call made for a segment resets an accumulator
C28_ResetGivesFreshAccumulators == []C28_State /\ [][C28_Steps]_vars

\* a second engine, just constructed by resetTFR() with an alpha that was set
\* after the first engine had been constructed
C28_Witness ==
    /\ ready
    /\ rt = "none"
    /\ tfrGen = MaxEngines
    /\ nodeAlpha # 0
    /\ FreshAccums(nodeAlpha)

\* C29: for every t below nTimes the sample index of addTrial is
\* (t * stepLen + windowLen / 2) * Fs with windowLen / 2 not truncated, so it
\* lies between windowLen / 2 * Fs and (segmentLen - windowLen / 2) * Fs and
\* is below the FFT length, for every window length
C29_IndexInTrimmedRange ==
    \A i \in 1..Len(tIndex) :
        /\ tIndex[i] = (((2 * (i - 1) * stepLen.num + windowLen * stepLen.den) * Fs)
                           \div (2 * stepLen.den))
        /\ 2 * tIndex[i] >= windowLen * Fs
        /\ 2 * tIndex[i] <= (2 * segLen - windowLen) * Fs
        /\ tIndex[i] < segLen * Fs

\* powBuffer[c][f][t].getAverage() is exactly zero
ZeroPower(c, f, t) ==
    RealWeightedAccum_getAverage(powBuffer[c][f][t].sum, powBuffer[c][f][t].count).num = 0

\* C30: when the average power of either channel of a pair is exactly zero at
\* some frequency and time bin, getMeanCoherence stores NaN for that
\* frequency and completes: every cross-spectrum accumulator of the pair has
\* had its one value and nothing else of the engine has changed
C30_ZeroPowerGivesNaN ==
    [][\A p \in Combs : MeanCoherenceStep(p) =>
          /\ \A f \in Freqs :
                (\E t \in Times : ZeroPower(itX(p), f, t) \/ ZeroPower(itY(p), f, t))
                    => res'[resW][p][f].val = NaN
          /\ C27_GetMeanCoherence(p)]_vars

\* getMeanCoherence has stored NaN for a pair of which one channel has power
\* and the other, after a trial, has none
C30_Witness ==
    /\ tfrGen > 0
    /\ \E p \in Combs, f \in Freqs :
          /\ trials.coh[p] > 0
          /\ res[resW][p][f].val = NaN
          /\ trials.add[itY(p)] > 0
          /\ \A t \in Times : ~ZeroPower(itX(p), f, t) /\ ZeroPower(itY(p), f, t)

\* C31: after discardCurBuffer() the node waits Fs samples: as long as the
\* callbacks since the discard have brought fewer than Fs samples, no sample
\* is set in the segment and nSamplesAdded is 0.
C31_WaitsAfterArtifact ==
    sinceDiscard < Fs => nSamplesAdded = 0 /\ written = 0

\* C32: a handle that is not valid releases nothing when it is destroyed, so
\* a valid handle stays the only registered holder of its role, with the
\* counter at 1, while other handles of the role are constructed and
\* destroyed; a valid handle releases the registration at its destruction and
\* nowhere else, and the counter is lowered only by the holder's release.
C32_State ==
    /\ ValidWriters # {} => nWriters = 1 /\ Cardinality(ValidWriters) = 1
    /\ ValidReaders # {} => nReaders = 1 /\ Cardinality(ValidReaders) = 1

C32_Steps ==
    /\ \A h \in WriteHandles :
         /\ (wh[h] = "invalid" /\ wh'[h] # "invalid") =>
               wh'[h] = "none" /\ nWriters' = nWriters /\ ValidWriters' = ValidWriters
         /\ (wh[h] \in WriteValid /\ wh'[h] \notin WriteValid) =>
               wh[h] = "idle" /\ wh'[h] = "none" /\ nWriters = 1 /\ nWriters' = 0
    /\ \A h \in ReadHandles :
         /\ (rh[h] = "invalid" /\ rh'[h] # "invalid") =>
               rh'[h] = "none" /\ nReaders' = nReaders /\ ValidReaders' = ValidReaders
         /\ (rh[h] \in ReadValid /\ rh'[h] \notin ReadValid) =>
               rh[h] = "idle" /\ rh'[h] = "none" /\ nReaders = 1 /\ nReaders' = 0
    /\ nWriters' < nWriters =>
          \/ \E h \in WriteHandles : wh[h] \in WriteValid /\ wh'[h] = "none"
          \/ LockoutHoldsWriter /\ ~LockoutHoldsWriter'
    /\ nReaders' < nReaders =>
          \/ \E h \in ReadHandles : rh[h] \in ReadValid /\ rh'[h] = "none"
          \/ LockoutHoldsReader /\ ~LockoutHoldsReader'

C32_InvalidHandleReleasesNothing == []C32_State /\ [][C32_Steps]_vars

\* in the middle of the first write handle's push and of the first read
\* handle's pull, a second handle of each role has been constructed invalid
C32_Witness ==
    /\ wh[1] \in InPush
    /\ wh[2] = "invalid"
    /\ rh[1] \in InPull
    /\ rh[2] = "invalid"
    /\ nWriters = 1
    /\ nReaders = 1

\* the lockout of reset() was not valid and is being destroyed
FailedLockout == lk \in {"dtorR", "dtorW"} /\ ~valid

\* C33: a lockout that is not valid returns only the registration it
\* acquired itself: its destructor lowers a counter only if the lockout
\* acquired it, and then back to 0, the value it had at the attempt; it
\* leaves the other counter and every handle as they are, so a valid handle
\* keeps its registration, and once the lockout is gone the counters count
\* the valid handles alone.
C33_State ==
    FailedLockout =>
        /\ hasReadLock # hasWriteLock \/ (~hasReadLock /\ ~hasWriteLock)
        /\ ValidWriters # {} => nWriters = 1 /\ ~hasWriteLock
        /\ ValidReaders # {} => nReaders = 1 /\ (lk = "dtorR" => ~hasReadLock)

C33_Steps ==
    /\ (FailedLockout /\ lk = "dtorR" /\ lk' # lk) =>
          /\ nReaders' = IF hasReadLock THEN 0 ELSE nReaders
          /\ hasReadLock => nReaders = 1
          /\ UNCHANGED <<nWriters, wh, rh, indices>>
    /\ (FailedLockout /\ lk = "dtorW" /\ lk' # lk) =>
          /\ lk' = "none"
          /\ ~resetResult'
          /\ nWriters' = IF hasWriteLock THEN 0 ELSE nWriters
          /\ hasWriteLock => nWriters = 1
          /\ UNCHANGED <<nReaders, wh, rh, indices>>
          /\ nWriters' = Cardinality(ValidWriters')
          /\ nReaders' = Cardinality(ValidReaders')

C33_FailedLockoutReleasesOwn == []C33_State /\ [][C33_Steps]_vars

\* reset() has returned false because of a write handle in a push and of a
\* read handle, and both handles still hold their registrations
C33_Witness ==
    /\ lk = "none"
    /\ ~resetResult
    /\ \E h \in WriteHandles : wh[h] \in InPush
    /\ \E h \in ReadHandles : rh[h] = "idle"
    /\ nWriters = 1
    /\ nReaders = 1

\* C34: without a reset, the number of the push whose slot the reader holds
\* never goes down, and readerIndex changes only when a pull takes the slot
\* of a push newer than the one it held: a pull that finds nothing new leaves
\* readerIndex as it is.
C34_Steps ==
    /\ lk # "locked" => PushOf(readerIndex') >= PushOf(readerIndex)
    /\ (lk # "locked" /\ readerIndex' # readerIndex) =>
          /\ \E h \in ReadHandles : rh[h] = "take" /\ rh'[h] = "idle"
          /\ readyToReadIndex # Empty
          /\ readerIndex' = readyToReadIndex
          /\ PushOf(readerIndex') > PushOf(readerIndex)
    /\ \A h \in ReadHandles :
          (rh[h] \in {"ctor", "idle"} /\ readyToReadIndex = Empty) =>
              readerIndex' = readerIndex

C34_PullsAreMonotone == [][C34_Steps]_vars

\* the reader has pulled between the pushes: it holds the slot of the last
\* push and the other two slots are those of the two pushes before it
C34_Witness ==
    /\ \E h \in ReadHandles : rh[h] = "idle"
    /\ readyToReadIndex = Empty
    /\ PushOf(readerIndex) = MaxPushes
    /\ {slotPush[i] : i \in Slots} = {MaxPushes - 2, MaxPushes - 1, MaxPushes}

\* C35: run() feeds the segment of a push to the engine in at most one
\* analysis cycle: a cycle begins only when hasUpdate() was true, the update
\* is still there when its pull begins, the pull empties readyToReadIndex,
\* and the segment the cycle then takes is that of a push later than the one
\* the cycle before it took; while the cycle feeds the engine the reader
\* holds the slot of that push.
C35_State ==
    /\ (run.at = "pull" /\ rh[1] = "idle" /\ sawUpdate > 0) => hasUpdate
    /\ run.at \in {"addTrial", "coherence", "power", "push"} =>
          /\ cycle > 0
          /\ rh[1] = "idle"
          /\ PushOf(readerIndex) = fed

C35_Steps ==
    /\ (run.at = "poll" /\ run'.at = "pull") => hasUpdate /\ cycle' = cycle + 1
    /\ cycle' # cycle => run.at = "poll" /\ run'.at = "pull"
    /\ (run.at = "pull" /\ rh[1] = "take" /\ rh'[1] = "idle") =>
          readyToReadIndex' = Empty /\ PushOf(readerIndex') > fed
    /\ (run.at = "pull" /\ run'.at = "addTrial") =>
          fed' > fed /\ fed' = PushOf(readerIndex)
    /\ fed' # fed => run.at = "pull" /\ run'.at = "addTrial"

C35_SegmentFedOnce == []C35_State /\ [][C35_Steps]_vars

\* the second analysis cycle has the segment of the last push, later than
\* the one the first cycle had
C35_Witness ==
    /\ cycle = 2
    /\ run.at = "addTrial"
    /\ run.i = NumChans
    /\ fed = MaxPushes
    /\ trials.add[1] = 2

\* C36: in coherence mode, when an analysis cycle has made its calls, each
\* pair's cross-spectrum accumulators have been given as many values as the
\* power accumulators of either channel of the pair, whatever channels are
\* active.
C36_CountsAgree ==
    (WhatisIT = 1 /\ run.at = "push") =>
        \A p \in Combs :
            /\ trials.coh[p] = trials.add[itX(p)]
            /\ trials.coh[p] = trials.add[itY(p)]

\* C37: between the calls of process() nSamplesAdded is at least 0 and below
\* segLen * Fs, and every sample process() stores goes to a position from
\* nSamplesAdded on that is below segLen * Fs, whatever the numbers of
\* samples, the artifacts and the pushes are.
C37_State ==
    /\ callback # "push" => (0 <= nSamplesAdded /\ nSamplesAdded < SegSamples)
    /\ lastSet < SegSamples
    /\ written <= SegSamples

C37_Steps ==
    (callback = "enter" /\ callback' # "enter" /\ lastSet' # 0 - 1) =>
        /\ nSamplesAdded <= lastSet'
        /\ lastSet' < SegSamples
        /\ callback' = "push" => lastSet' = SegSamples - 1

C37_SamplesWithinSegment == []C37_State /\ [][C37_Steps]_vars

\* after an artifact, a later segment is full: its last position has been
\* set by a callback whose samples were cut to fit
C37_Witness ==
    /\ callback = "push"
    /\ numArtifacts > 0
    /\ lastSet = SegSamples - 1
    /\ written = SegSamples
    /\ pushCount = numTrials


\* C38: after the acquisition side completed push number k, and while the
\* analysis thread keeps running with no exit signal, the reader eventually
\* holds the slot of push k or of a later push; and whenever hasUpdate() is
\* true it becomes false again, so it does not stay true forever.
C38_UpdateEventuallyPulled ==
    /\ \A k \in 1..MaxPushes :
           (PushesCompleted >= k) ~> (PushOf(readerIndex) >= k)
    /\ hasUpdate ~> ~hasUpdate

C38_Witness ==
    /\ run.at # "off"
    /\ PushesCompleted >= 2
    /\ PushOf(readerIndex) = PushesCompleted
    /\ ~hasUpdate
====
